---- MODULE Spec2Model ----
(***************************************************************************)
(* A model of the Teams -> Ollama relay: the webhook handler (routes.py),  *)
(* the worker thread (async_processor.py), the three-shape delivery        *)
(* (teams_webhook.py), the signature verifier (teams_auth.py) and the      *)
(* file search with its cache (onedrive_search.py).                        *)
(*                                                                         *)
(* Specifications:                                                         *)
(*   Spec         the webhook handler, one worker thread per accepted      *)
(*                request and its delivery attempts, interleaved           *)
(*   SpecFair     Spec with weak fairness of the steps of every worker     *)
(*   SpecVerify   one run of verify_teams_token over sample inputs         *)
(*   SpecSearch   a sequence of search_files calls on one OneDriveSearch,   *)
(*                with time passing and files changing between the calls   *)
(*   SpecThreads  search_files called from several threads at once, one    *)
(*                step of one call at a time on the shared cache           *)
(*   SpecMatch    one file of the walk of search_files against the terms   *)
(*                of sample keyword arguments                              *)
(*   SpecContent  one run of get_relevant_content: the assembly of the     *)
(*                output, one matched file per step, over string lengths   *)
(*   SpecExtract  one run of FileExtractor.extract_file_content over       *)
(*                sample files, library states and failures                *)
(*   SpecDate     one call of extract_date_from_query on a sample query    *)
(*   SpecKeywords one run of the keyword extraction of                     *)
(*                get_relevant_content on a sample query                   *)
(*   SpecSplit    split_text_blocks and the limiting of its blocks, one    *)
(*                line and one block per step, over string lengths         *)
(*   SpecGenerate one run of generate_ollama_response over the outcomes    *)
(*                of the file search and of the model backend              *)
(***************************************************************************)
EXTENDS Integers, Sequences, FiniteSets, TLC

VARIABLES
    cfg,        \* the configuration dictionary, loaded once at start-up
    hpc,        \* handler of request r: "idle", "started" (thread started), "done"
    hver,       \* handler: outcome of the verification step of request r
    hwarn,      \* handler: the warning it logged for request r
    htext,      \* handler: the body of request r had a text field
    resp,       \* handler: the HTTP response returned for request r
    wpc,        \* worker of request r: position in process_query_async
    nposts,     \* worker: POSTs made by the running send_ollama_response call
    last,       \* worker: shape and outcome of its latest delivery POST
    result,     \* worker: the value send_ollama_response returned
    resent,     \* worker: resend POSTs made (async_processor.py 118)
    vin,        \* verify_teams_token: the arguments of the call
    vpc,        \* verify_teams_token: position ("idle","start","loop","special","done")
    vidx,       \* verify_teams_token: index of the next combination / token variant
    vtried,     \* verify_teams_token: the counter i (candidates computed so far)
    vresult,    \* verify_teams_token: the returned value (once vpc = "done")
    vmatch,     \* verify_teams_token: where the match was found
    now,        \* search: the clock, time.time() in seconds
    nticks,     \* search: how many times the clock has advanced
    fs,         \* search: the files under the base directory (0 = absent,
                \*         otherwise the version of its modification time)
    cache,      \* search: self.search_cache, cache key -> entry
    ncalls,     \* search: search_files calls made so far
    sprev,      \* search: the search_files call before the latest one
    scall,      \* search: the latest search_files call and what it returned
    cin,        \* content: max_chars and the number of search results
    cpc,        \* content: position in get_relevant_content
    ci,         \* content: the loop index i
    total_chars,\* content: the counter total_chars
    outlen,     \* content: len(relevant_content), or of the returned message
    cflags,     \* content: blocks truncated so far, omission marker appended
    fin,        \* one function call: its arguments (and the environment it reads)
    fpc,        \* one function call: its position
    fout        \* one function call: its local values, then what it returned

mainVars == <<cfg, hpc, hver, hwarn, htext, resp, wpc, nposts, last, result, resent>>
verVars == <<vin, vpc, vidx, vtried, vresult, vmatch>>
srchVars == <<now, nticks, fs, cache, ncalls, sprev, scall>>
contVars == <<cin, cpc, ci, total_chars, outlen, cflags>>
funVars == <<fin, fpc, fout>>
vars == <<mainVars, verVars, srchVars, contVars, funVars>>

\* the value of the search variables in the specifications without a search
SrchIdle ==
    /\ now = 0
    /\ nticks = 0
    /\ fs = <<>>
    /\ cache = <<>>
    /\ ncalls = 0
    /\ sprev = <<>>
    /\ scall = <<>>

\* the value of the content variables in the other specifications
ContIdle ==
    /\ cin = <<>>
    /\ cpc = "idle"
    /\ ci = 0
    /\ total_chars = 0
    /\ outlen = 0
    /\ cflags = <<>>

\* the value of the function-call variables in the other specifications
FunIdle ==
    /\ fin = <<>>
    /\ fpc = "idle"
    /\ fout = <<>>

(***************************************************************************)
(* Strings.  The shared secret is a sequence of characters, so that the    *)
(* padding operations of the code are computed.  Message bodies are opaque *)
(* byte strings.  A digest is the term <<algorithm, key, message>>: HMAC   *)
(* is taken to be collision free.  A rendering of a digest is the term     *)
(* [enc, of]; the three renderings of one digest are different strings     *)
(* (44/43/64 characters for sha256, 28/27/40 for sha1).                    *)
(***************************************************************************)
NoDigest == <<"-", <<>>, "-">>

Hmac(alg, key, msg) == <<alg, key, msg>>

Render(enc, digest) == [enc |-> enc, of |-> digest]

\* a text that is no rendering of any digest ("" is the empty string)
Plain(s) == [enc |-> "plain", of |-> <<"-", <<>>, s>>]

\* a base64 text of the digest that is not the canonical one: it carries
\* characters outside the base64 alphabet (a newline, a blank) or surplus '='
Loose(digest) == [enc |-> "base64_loose", of |-> digest]

\* the Authorization header: absent (None), or an optional "HMAC " label
\* followed by a text
NoHeader == [present |-> FALSE, label |-> FALSE, text |-> Plain("")]

Header(label, text) == [present |-> TRUE, label |-> label, text |-> text]

\* Python truthiness of the header value: None and "" are false
Truthy(sig) == sig.present /\ (sig.label \/ sig.text # Plain(""))

EndsWithEq(s) == Len(s) > 0 /\ s[Len(s)] = "="

RECURSIVE PadToBlock(_)
PadToBlock(s) == IF Len(s) % 4 # 0 THEN PadToBlock(Append(s, "=")) ELSE s

RECURSIVE RStripEq(_)
RStripEq(s) == IF EndsWithEq(s) THEN RStripEq(SubSeq(s, 1, Len(s) - 1)) ELSE s

\* base64.b64encode(base64.b64decode(token)) for the sample tokens; <<"!">>
\* stands for "b64decode raised" ("abc": incorrect padding)
NotBase64 == <<"!">>

B64Reencode(token) ==
    CASE token = <<"a", "b", "c", "d">> -> <<"a", "b", "c", "d">>
      [] token = <<"a", "b", "=", "=">> -> <<"a", "Q", "=", "=">>
      [] OTHER -> NotBase64

\* teams_auth.py 56-80
TokenVariants(token) ==
    <<token>>
    \o (IF ~EndsWithEq(token) THEN <<PadToBlock(token)>> ELSE <<>>)
    \o (IF EndsWithEq(token) THEN <<RStripEq(token)>> ELSE <<>>)
    \o (IF B64Reencode(token) # NotBase64 THEN <<B64Reencode(token)>> ELSE <<>>)

(***************************************************************************)
(* Sample request bodies, with the serialisations the code derives from    *)
(* them (json.loads / json.dumps / re.sub evaluated on the sample).        *)
(*   json: "none" (does not parse), "dict", "int" (a bare number)          *)
(***************************************************************************)
BodyText ==
    [raw |-> "{'text': 'hi', 'a': 1}", decodable |-> TRUE, json |-> "dict",
     compact |-> "{'text':'hi','a':1}", canonical |-> "{'a':1,'text':'hi'}",
     no_whitespace |-> "{'text':'hi','a':1}",
     hasText |-> TRUE, text_only |-> "'hi'", hasBody |-> FALSE, body_only |-> ""]

BodyNested ==
    [raw |-> "{'body':{'x': 1}}", decodable |-> TRUE, json |-> "dict",
     compact |-> "{'body':{'x':1}}", canonical |-> "{'body':{'x':1}}",
     no_whitespace |-> "{'body':{'x':1}}",
     hasText |-> FALSE, text_only |-> "", hasBody |-> TRUE, body_only |-> "{'x':1}"]

BodyNotJson ==
    [raw |-> "hello", decodable |-> TRUE, json |-> "none",
     compact |-> "", canonical |-> "", no_whitespace |-> "",
     hasText |-> FALSE, text_only |-> "", hasBody |-> FALSE, body_only |-> ""]

BodyNumber ==
    [raw |-> "7", decodable |-> TRUE, json |-> "int",
     compact |-> "7", canonical |-> "7", no_whitespace |-> "7",
     hasText |-> FALSE, text_only |-> "", hasBody |-> FALSE, body_only |-> ""]

BodyBinary ==
    [raw |-> "<ff fe>", decodable |-> FALSE, json |-> "none",
     compact |-> "", canonical |-> "", no_whitespace |-> "",
     hasText |-> FALSE, text_only |-> "", hasBody |-> FALSE, body_only |-> ""]

BodyEmpty ==
    [raw |-> "", decodable |-> TRUE, json |-> "none",
     compact |-> "", canonical |-> "", no_whitespace |-> "",
     hasText |-> FALSE, text_only |-> "", hasBody |-> FALSE, body_only |-> ""]

\* request_str is truthy: the body decodes as UTF-8 and is not empty
HasRequestStr(body) == body.decodable /\ body.raw # ""

\* teams_auth.py 96-132: the body variants, in the order the code appends them
DataVariants(body) ==
    <<[name |-> "raw_bytes", data |-> body.raw]>>
    \o (IF HasRequestStr(body)
        THEN <<[name |-> "utf8_string", data |-> body.raw]>> ELSE <<>>)
    \o (IF HasRequestStr(body) /\ body.json # "none"
        THEN <<[name |-> "compact_json", data |-> body.compact],
               [name |-> "canonical_json", data |-> body.canonical],
               [name |-> "no_whitespace_json", data |-> body.no_whitespace]>>
        ELSE <<>>)
    \o (IF HasRequestStr(body) /\ body.json = "dict" /\ body.hasText
        THEN <<[name |-> "text_only", data |-> body.text_only]>> ELSE <<>>)
    \o (IF HasRequestStr(body) /\ body.json = "dict" /\ body.hasBody
        THEN <<[name |-> "body_only", data |-> body.body_only]>> ELSE <<>>)

\* teams_auth.py 137-140
DigestAlgos == <<"sha256", "sha1">>

\* teams_auth.py 143-147
OutputFormats == <<"base64", "base64_no_padding", "hex">>

\* teams_auth.py 156-161: the nested loops (token, data, digest, format), the
\* innermost varying fastest; ComboAt is the i-th combination tried
NumCombos(token, body) ==
    Len(TokenVariants(token)) * Len(DataVariants(body))
        * Len(DigestAlgos) * Len(OutputFormats)

ComboAt(token, body, i) ==
    LET tv == TokenVariants(token)
        dv == DataVariants(body)
        nf == Len(OutputFormats)
        na == Len(DigestAlgos)
        nd == Len(dv)
        f == ((i - 1) % nf) + 1
        a == (((i - 1) \div nf) % na) + 1
        d == (((i - 1) \div (nf * na)) % nd) + 1
        t == ((i - 1) \div (nf * na * nd)) + 1
    IN [token |-> tv[t], data_name |-> dv[d].name, data |-> dv[d].data,
        digest_name |-> DigestAlgos[a], format_name |-> OutputFormats[f]]

Combos(token, body) == [i \in 1..NumCombos(token, body) |-> ComboAt(token, body, i)]

\* teams_auth.py 164-171: computed_signature of one combination
Candidate(c) ==
    Header(FALSE, Render(c.format_name, Hmac(c.digest_name, c.token, c.data)))

\* a clean-up that also normalises the text (drops blanks and surplus padding)
CleanSignature_mutNormalise(sig) ==
    [sig EXCEPT !.label = FALSE,
                !.text = IF sig.text.enc = "base64_loose"
                         THEN Render("base64", sig.text.of) ELSE sig.text]

\* teams_auth.py 36-39
CleanSignature(sig) == IF sig.label THEN [sig EXCEPT !.label = FALSE] ELSE sig

\* base64.b64decode(clean_signature), validate=False: characters outside the
\* alphabet are discarded.  NoDigest: it raised, or the bytes are no digest.
B64Decode(clean) ==
    IF ~clean.label /\ clean.text.enc \in {"base64", "base64_loose"}
    THEN clean.text.of ELSE NoDigest

\* teams_auth.py 196-219: the special case for one token variant
SpecialMatch(token, body, clean) ==
    LET raw_hmac == Hmac("sha256", token, body.raw)
    IN \/ Header(FALSE, Render("base64", raw_hmac)) = clean
       \/ Header(FALSE, Render("base64_no_padding", raw_hmac)) = clean
       \/ B64Decode(clean) = raw_hmac

\* teams_auth.py 11-247 as a function of its arguments
verify_teams_token(body, sig, token) ==
    IF token = <<>> THEN FALSE
    ELSE IF ~Truthy(sig) THEN FALSE
    ELSE LET clean == CleanSignature(sig)
             cs == Combos(token, body)
             tv == TokenVariants(token)
         IN \/ \E i \in 1..Len(cs) : Candidate(cs[i]) = clean
            \/ \E t \in 1..Len(tv) : SpecialMatch(tv[t], body, clean)

(***************************************************************************)
(* The webhook handler and the worker threads.                             *)
(***************************************************************************)
MaxReqs == 2

Reqs == 1..MaxReqs

\* config['TEAMS_OUTGOING_TOKEN'] (never empty: config.py 109-111)
ConfigToken == <<"a", "b", "=", "=">>

Configs == [SKIP_VERIFICATION : BOOLEAN, DEBUG : BOOLEAN,
            webhook : BOOLEAN,     \* teams_webhook is not None
            search : BOOLEAN]      \* onedrive_search is not None

bypass_teams_token_mutSkipOnly(c) == c.SKIP_VERIFICATION

\* teams_auth.py 429-446
bypass_teams_token(c) == c.SKIP_VERIFICATION \/ c.DEBUG

RejectUnverified_mutInverted(debug) == debug

\* routes.py 54: a failed verification is refused unless DEBUG is set
RejectUnverified(debug) == ~debug

AuthDecision_mutWarnOnFail(skip, ok, debug) ==
    IF skip THEN "skipped" ELSE IF ok THEN "passed" ELSE "continue"

\* routes.py 44-62: what the handler does about the signature, given the
\* value of skip_verification (line 44), the result of verify_teams_token
\* (line 52, only called when skip is false) and config['DEBUG']
AuthDecision(skip, ok, debug) ==
    IF skip THEN "skipped"
    ELSE IF ok THEN "passed"
    ELSE IF RejectUnverified(debug) THEN "reject"
    ELSE "continue"

NoResp == [code |-> 0, text |-> ""]

\* routes.py 89-93 (the text is longer when the file search is enabled)
Ack(c) == [code |-> 200,
           text |-> IF c.search THEN "accepted, please wait" ELSE "accepted"]

ErrorResp(code) == [code |-> code, text |-> "error"]

\* requests the handler may receive: a body and an Authorization header
ReqBodies == {BodyText, BodyNested, BodyNotJson}

ReqSigs(body) ==
    {Header(FALSE, Render("base64", Hmac("sha256", ConfigToken, body.raw))),
     Header(FALSE, Plain("unrelated")),
     NoHeader}

\* request.json is a dictionary (otherwise line 64 or 68 raises: 500)
ParsesAsDict(body) == body.decodable /\ body.json = "dict"

\* delivery: the three payload shapes in the order of the code, and the
\* "format" each success result reports (the code's labels are Japanese:
\* "ルートレベルattachments", "従来形式", "シンプル" = simple)
Shapes == <<"rich", "legacy", "simple">>

FormatOf(shape) ==
    CASE shape = "rich" -> "root_attachments"
      [] shape = "legacy" -> "legacy"
      [] shape = "simple" -> "simple"

\* outcomes of one requests.post: a response with a status code, or an
\* exception (timeout, connection error)
HttpCodes == {200, 299, 300}

Responded(c) == [raised |-> FALSE, code |-> c]

Raised == [raised |-> TRUE, code |-> 0]

Outcomes == {Responded(c) : c \in HttpCodes} \cup {Raised}

\* teams_webhook.py 227, 248, 269
Is2xx(o) == ~o.raised /\ o.code >= 200 /\ o.code < 300

NoPost == [shape |-> "none", outcome |-> Raised]

\* the dictionaries send_ollama_response returns; hasCode: the "code" key is
\* present; message: "body" is the response text, "exception" is str(e)
NoResult == [status |-> "none", hasCode |-> FALSE, code |-> 0,
             format |-> "", message |-> ""]

SuccessResult(shape, o) ==
    [status |-> "success", hasCode |-> TRUE, code |-> o.code,
     format |-> FormatOf(shape), message |-> ""]

ErrorResult_mutNoCode(o) ==
    [status |-> "error", hasCode |-> FALSE, code |-> 0,
     format |-> "", message |-> "exception"]

\* teams_webhook.py 274 / 278, 283
ErrorResult(o) ==
    IF ~o.raised
    THEN [status |-> "error", hasCode |-> TRUE, code |-> o.code,
          format |-> "", message |-> "body"]
    ELSE [status |-> "error", hasCode |-> FALSE, code |-> 0,
          format |-> "", message |-> "exception"]

MainIdle ==
    /\ cfg = [SKIP_VERIFICATION |-> FALSE, DEBUG |-> FALSE,
              webhook |-> FALSE, search |-> FALSE]
    /\ hpc = [r \in Reqs |-> "off"]
    /\ hver = [r \in Reqs |-> "none"]
    /\ hwarn = [r \in Reqs |-> "none"]
    /\ htext = [r \in Reqs |-> FALSE]
    /\ resp = [r \in Reqs |-> NoResp]
    /\ wpc = [r \in Reqs |-> "none"]
    /\ nposts = [r \in Reqs |-> 0]
    /\ last = [r \in Reqs |-> NoPost]
    /\ result = [r \in Reqs |-> NoResult]
    /\ resent = [r \in Reqs |-> 0]

VerIdle ==
    /\ vin = [token |-> <<>>, body |-> BodyEmpty, sig |-> NoHeader]
    /\ vpc = "idle"
    /\ vidx = 0
    /\ vtried = 0
    /\ vresult = FALSE
    /\ vmatch = [phase |-> "none", idx |-> 0]

\* the state after start-up (main.py): no request received yet
Init ==
    /\ cfg \in Configs
    /\ hpc = [r \in Reqs |-> "idle"]
    /\ hver = [r \in Reqs |-> "none"]
    /\ hwarn = [r \in Reqs |-> "none"]
    /\ htext = [r \in Reqs |-> FALSE]
    /\ resp = [r \in Reqs |-> NoResp]
    /\ wpc = [r \in Reqs |-> "none"]
    /\ nposts = [r \in Reqs |-> 0]
    /\ last = [r \in Reqs |-> NoPost]
    /\ result = [r \in Reqs |-> NoResult]
    /\ resent = [r \in Reqs |-> 0]
    /\ VerIdle
    /\ SrchIdle
    /\ ContIdle
    /\ FunIdle

\* routes.py 26-103 up to thread.start() (line 86) or an early return
teams_webhook_handler(r) ==
    /\ hpc[r] = "idle"
    /\ \E body \in ReqBodies : \E sig \in ReqSigs(body) :
         LET skip == bypass_teams_token(cfg)
             ok == verify_teams_token(body, sig, ConfigToken)
             auth == AuthDecision(skip, ok, cfg.DEBUG)
             rejected == auth = "reject"
         IN /\ hver' = [hver EXCEPT ![r] =
                          IF skip THEN "skipped" ELSE IF ok THEN "passed" ELSE "failed"]
            /\ hwarn' = [hwarn EXCEPT ![r] =
                          IF auth \in {"skipped", "continue"} THEN auth ELSE "none"]
            /\ htext' = [htext EXCEPT ![r] = ParsesAsDict(body) /\ body.hasText]
            /\ IF rejected
               THEN /\ resp' = [resp EXCEPT ![r] = ErrorResp(403)]
                    /\ hpc' = [hpc EXCEPT ![r] = "done"]
                    /\ wpc' = wpc
               ELSE IF ~ParsesAsDict(body)
               THEN /\ resp' = [resp EXCEPT ![r] = ErrorResp(500)]
                    /\ hpc' = [hpc EXCEPT ![r] = "done"]
                    /\ wpc' = wpc
               ELSE IF ~body.hasText
               THEN /\ resp' = [resp EXCEPT ![r] = ErrorResp(400)]
                    /\ hpc' = [hpc EXCEPT ![r] = "done"]
                    /\ wpc' = wpc
               ELSE /\ wpc' = [wpc EXCEPT ![r] = "generate"]
                    /\ hpc' = [hpc EXCEPT ![r] = "started"]
                    /\ resp' = resp
    /\ UNCHANGED <<cfg, nposts, last, result>>
    /\ UNCHANGED <<resent, verVars, srchVars, contVars, funVars>>

HandlerReturn_mutJoin(r) ==
    /\ hpc[r] = "started"
    /\ wpc[r] = "done"
    /\ hpc' = [hpc EXCEPT ![r] = "done"]
    /\ resp' = [resp EXCEPT ![r] =
                  IF result[r].status = "error" THEN ErrorResp(500) ELSE Ack(cfg)]
    /\ UNCHANGED <<cfg, hver, hwarn, htext, wpc, nposts, last, result>>
    /\ UNCHANGED <<resent, verVars, srchVars, contVars, funVars>>

\* routes.py 88-93: the acknowledgment, returned right after thread.start()
HandlerReturn(r) ==
    /\ hpc[r] = "started"
    /\ hpc' = [hpc EXCEPT ![r] = "done"]
    /\ resp' = [resp EXCEPT ![r] = Ack(cfg)]
    /\ UNCHANGED <<cfg, hver, hwarn, htext, wpc, nposts, last, result>>
    /\ UNCHANGED <<resent, verVars, srchVars, contVars, funVars>>

\* async_processor.py 24-93: everything up to the delivery.  The model call
\* (generate_ollama_response) returns a text; "raised" is an unexpected
\* exception, which enters the except block of line 126.
Generate(r) ==
    /\ wpc[r] = "generate"
    /\ \E o \in {"text", "raised"} :
         wpc' = [wpc EXCEPT ![r] =
                   IF ~cfg.webhook THEN "done"
                   ELSE IF o = "text" THEN "send" ELSE "notify"]
    /\ UNCHANGED <<cfg, hpc, hver, hwarn, htext, resp, nposts, last, result>>
    /\ UNCHANGED <<resent, verVars, srchVars, contVars, funVars>>

AfterSend_mutSendAgain(phase, res) ==
    IF res.status # "success" THEN phase ELSE "done"

AfterSend_mutResendAlways(phase, res) ==
    IF res.status # "success" THEN "resend" ELSE "done"

\* where process_query_async continues when send_ollama_response returns res:
\* lines 101-121 after the call of line 95, the end after the call of line 134
AfterSend(phase, res) ==
    IF phase = "send" /\ res.status # "success" THEN "resend" ELSE "done"

\* teams_webhook.py 37-213: building the payloads raises (line 143 encodes
\* the query, which may hold a lone surrogate); the outer except of line 280
\* turns it into an error result, and no POST is made
SendPrepareRaises(r) ==
    /\ wpc[r] \in {"send", "notify"}
    /\ nposts[r] = 0
    /\ result' = [result EXCEPT ![r] = ErrorResult(Raised)]
    /\ wpc' = [wpc EXCEPT ![r] = AfterSend(wpc[r], ErrorResult(Raised))]
    /\ UNCHANGED <<cfg, hpc, hver, hwarn, htext, resp, nposts, last>>
    /\ UNCHANGED <<resent, verVars, srchVars, contVars, funVars>>

NextShape_mutSimpleFirst(n) == <<"simple", "legacy", "rich">>[n + 1]

\* teams_webhook.py 215-278: the shape of the attempt made after n attempts
NextShape(n) == Shapes[n + 1]

ContinueAfter_mutAlways(o) == TRUE

\* teams_webhook.py 227-234, 248-255: the next shape is tried unless the
\* response was 2xx
ContinueAfter(o) == ~Is2xx(o)

\* teams_webhook.py 215-278: one requests.post of send_ollama_response and
\* what follows it up to the next POST or the return
Post(r, shape) ==
    /\ wpc[r] \in {"send", "notify"}
    /\ nposts[r] < Len(Shapes)
    /\ shape = NextShape(nposts[r])
    /\ \E o \in Outcomes :
         /\ last' = [last EXCEPT ![r] = [shape |-> shape, outcome |-> o]]
         /\ nposts' = [nposts EXCEPT ![r] = nposts[r] + 1]
         /\ IF ContinueAfter(o) /\ nposts[r] + 1 < Len(Shapes)
            THEN UNCHANGED <<wpc, result>>
            ELSE LET res == IF Is2xx(o) THEN SuccessResult(shape, o) ELSE ErrorResult(o)
                 IN /\ result' = [result EXCEPT ![r] = res]
                    /\ wpc' = [wpc EXCEPT ![r] = AfterSend(wpc[r], res)]
    /\ UNCHANGED <<cfg, hpc, hver, hwarn, htext, resp>>
    /\ UNCHANGED <<resent, verVars, srchVars, contVars, funVars>>

\* teams_webhook.py 218-234
PostRich(r) == Post(r, "rich")

\* teams_webhook.py 239-255
PostLegacy(r) == Post(r, "legacy")

\* teams_webhook.py 260-278
PostSimple(r) == Post(r, "simple")

AfterResend_mutUntilDelivered(o) == IF Is2xx(o) THEN "done" ELSE "resend"

\* async_processor.py 118-121: the outcome of the resend POST is logged and
\* nothing else; the function ends
AfterResend(o) == "done"

\* async_processor.py 109-121: one more plain-text POST made outside
\* send_ollama_response; whatever its outcome, the worker ends
Resend(r) ==
    /\ wpc[r] = "resend"
    /\ \E o \in Outcomes : wpc' = [wpc EXCEPT ![r] = AfterResend(o)]
    /\ resent' = [resent EXCEPT ![r] = resent[r] + 1]
    /\ UNCHANGED <<cfg, hpc, hver, hwarn, htext, resp, nposts, last, result>>
    /\ UNCHANGED <<verVars, srchVars, contVars, funVars>>

\* async_processor.py 14-136: one step of the worker of request r
process_query_async(r) ==
    \/ Generate(r)
    \/ SendPrepareRaises(r)
    \/ PostRich(r)
    \/ PostLegacy(r)
    \/ PostSimple(r)
    \/ Resend(r)

Next ==
    \E r \in Reqs :
        \/ teams_webhook_handler(r)
        \/ HandlerReturn(r)
        \/ Generate(r)
        \/ SendPrepareRaises(r)
        \/ PostRich(r)
        \/ PostLegacy(r)
        \/ PostSimple(r)
        \/ Resend(r)

Spec == Init /\ [][Next]_vars

\* Every worker is a thread of its own (routes.py 80-86) and each of its
\* steps ends: the model call and the POSTs are made with a timeout
\* (ollama_client.py 155; teams_webhook.py 219-224; async_processor.py 118).
\* A worker that can take a step is therefore scheduled and takes it.
SpecFair == Spec /\ \A r \in Reqs : WF_vars(process_query_async(r))

(***************************************************************************)
(* verify_teams_token, one loop iteration per step.                        *)
(***************************************************************************)
NoMatch == [phase |-> "none", idx |-> 0]

\* teams_auth.py 23-29: the two early returns; otherwise enter the loops
VerifyStart ==
    /\ vpc = "start"
    /\ IF vin.token = <<>> \/ ~Truthy(vin.sig)
       THEN /\ vpc' = "done"
            /\ vresult' = FALSE
            /\ vidx' = vidx
       ELSE /\ vpc' = "loop"
            /\ vidx' = 1
            /\ vresult' = vresult
    /\ UNCHANGED <<vin, vtried, vmatch>>
    /\ UNCHANGED <<mainVars, srchVars, contVars, funVars>>

\* a loop that records the match but does not return on it
VerifyTry_mutNoReturn ==
    /\ vpc = "loop"
    /\ LET n == NumCombos(vin.token, vin.body)
           clean == CleanSignature(vin.sig)
       IN /\ vidx <= n
          /\ vtried' = vtried + 1
          /\ IF Candidate(ComboAt(vin.token, vin.body, vidx)) = clean /\ vmatch.phase = "none"
             THEN /\ vresult' = TRUE
                  /\ vmatch' = [phase |-> "loop", idx |-> vidx]
             ELSE UNCHANGED <<vresult, vmatch>>
          /\ vpc' = IF vidx = n THEN (IF vresult' THEN "done" ELSE "special") ELSE "loop"
          /\ vidx' = IF vidx = n THEN 1 ELSE vidx + 1
    /\ UNCHANGED vin
    /\ UNCHANGED <<mainVars, srchVars, contVars, funVars>>

\* teams_auth.py 156-185: one combination; return True on the first match
VerifyTry ==
    /\ vpc = "loop"
    /\ LET n == NumCombos(vin.token, vin.body)
           clean == CleanSignature(vin.sig)
       IN /\ vidx <= n
          /\ vtried' = vtried + 1
          /\ IF Candidate(ComboAt(vin.token, vin.body, vidx)) = clean
             THEN /\ vpc' = "done"
                  /\ vresult' = TRUE
                  /\ vmatch' = [phase |-> "loop", idx |-> vidx]
                  /\ vidx' = vidx
             ELSE /\ vpc' = IF vidx = n THEN "special" ELSE "loop"
                  /\ vidx' = IF vidx = n THEN 1 ELSE vidx + 1
                  /\ UNCHANGED <<vresult, vmatch>>
    /\ UNCHANGED vin
    /\ UNCHANGED <<mainVars, srchVars, contVars, funVars>>

\* teams_auth.py 190-247: the special case, one token variant per step; after
\* the last one the function logs its candidates and returns False
VerifySpecial ==
    /\ vpc = "special"
    /\ LET tv == TokenVariants(vin.token)
           clean == CleanSignature(vin.sig)
       IN IF SpecialMatch(tv[vidx], vin.body, clean)
          THEN /\ vpc' = "done"
               /\ vresult' = TRUE
               /\ vmatch' = [phase |-> "special", idx |-> vidx]
               /\ vidx' = vidx
          ELSE IF vidx = Len(tv)
          THEN /\ vpc' = "done"
               /\ vresult' = FALSE
               /\ UNCHANGED <<vmatch, vidx>>
          ELSE /\ vidx' = vidx + 1
               /\ UNCHANGED <<vpc, vresult, vmatch>>
    /\ UNCHANGED <<vin, vtried>>
    /\ UNCHANGED <<mainVars, srchVars, contVars, funVars>>

(***************************************************************************)
(* Sample arguments of verify_teams_token.                                 *)
(***************************************************************************)
Tokens == {<<>>, <<"a", "b", "c">>, <<"a", "b", "c", "d">>, <<"a", "b", "=", "=">>}

Bodies == {BodyText, BodyNested, BodyNotJson, BodyNumber, BodyBinary, BodyEmpty}

ForeignToken == <<"x", "y", "z", "w">>

SeqRange(s) == {s[i] : i \in 1..Len(s)}

\* every rendering of every digest over the variants of (token, body) and over
\* a foreign key and a foreign message, with and without the "HMAC " label,
\* canonical and loose; plus no header, empty and unrelated texts
SigSamples(token, body) ==
    LET keys == SeqRange(TokenVariants(token)) \cup {ForeignToken}
        msgs == {v.data : v \in SeqRange(DataVariants(body))} \cup {"other body"}
        digests == {Hmac(a, k, m) : a \in SeqRange(DigestAlgos), k \in keys, m \in msgs}
        texts == {Render(f, d) : f \in {"base64", "base64_no_padding", "hex"}, d \in digests}
                 \cup {Loose(d) : d \in digests}
                 \cup {Plain(""), Plain("unrelated")}
    IN {NoHeader} \cup {Header(l, t) : l \in BOOLEAN, t \in texts}

VerifyInit ==
    /\ \E t \in Tokens, b \in Bodies :
          \E s \in SigSamples(t, b) : vin = [token |-> t, body |-> b, sig |-> s]
    /\ vpc = "start"
    /\ MainIdle
    /\ SrchIdle
    /\ ContIdle
    /\ FunIdle
    /\ vidx = 0
    /\ vtried = 0
    /\ vresult = FALSE
    /\ vmatch = NoMatch

VerifyNext == VerifyStart \/ VerifyTry \/ VerifySpecial

SpecVerify == VerifyInit /\ [][VerifyNext]_vars

(***************************************************************************)
(* search_files and its cache (onedrive_search.py).  File names and        *)
(* keywords are sequences of characters, so that "term in file" is         *)
(* computed.  The calls sampled here pass a list of plain keywords (no     *)
(* date form) and no file_types.                                           *)
(***************************************************************************)
MaxTicks == 2

MaxCalls == 2

\* onedrive_search.py 62: self.cache_expiry
CacheExpiry == 300

\* the amounts of time that pass between two events
TickSizes == {1, 299, 301}

\* what os.walk(self.base_directory) yields: the directories top-down, each
\* with its files; a file is [id, name], and only the files present in fs
\* are listed
Tree ==
    << [dir |-> "base", files |-> << [id |-> 1, name |-> <<"m", "e", "m", "o">>],
                                     [id |-> 2, name |-> <<"r", "p", "1">>] >>],
       [dir |-> "base/sub", files |-> << [id |-> 3, name |-> <<"r", "p", "2">>] >>] >>

FileIds == {1, 2, 3}

\* the versions a file's modification time takes (0: the file is absent):
\* "memo" and "rp2" are always there, "rp1" comes, goes and is modified
Versions(f) == IF f = 2 THEN {0, 1, 2} ELSE {1}

\* term in file (substring)
Contains(name, term) ==
    \E i \in 0..(Len(name) - Len(term)) : SubSeq(name, i + 1, i + Len(term)) = term

\* onedrive_search.py 103-184 for plain keywords: each goes to search_terms
SearchTerms(keywords) == keywords

\* onedrive_search.py 193-221 (file_types is None, no date keyword)
Matches(file, keywords) ==
    \E k \in 1..Len(SearchTerms(keywords)) :
        Contains(file.name, SearchTerms(keywords)[k])

\* onedrive_search.py 223-235: the record appended for a matching file
FileRecord(d, file, files) ==
    [path |-> <<Tree[d].dir, file.name>>, name |-> file.name,
     modified |-> files[file.id]]

\* onedrive_search.py 236-240: the test made after a record was appended
\* (count is the number of records appended so far)
ReachedMax(count, max_results) == count >= max_results

\* onedrive_search.py 191-238: the inner loop over the files of directory d,
\* from its i-th file on; the loop is left as soon as ReachedMax holds after
\* an append
RECURSIVE WalkFiles(_, _, _, _, _, _)
WalkFiles(d, i, results, files, keywords, max_results) ==
    IF i > Len(Tree[d].files) THEN results
    ELSE LET file == Tree[d].files[i]
         IN IF files[file.id] = 0 \/ ~Matches(file, keywords)
            THEN WalkFiles(d, i + 1, results, files, keywords, max_results)
            ELSE LET appended == Append(results, FileRecord(d, file, files))
                 IN IF ReachedMax(Len(appended), max_results)
                    THEN appended
                    ELSE WalkFiles(d, i + 1, appended, files, keywords, max_results)

\* onedrive_search.py 190-240: the outer loop over the directories, left
\* after directory d when ReachedMax holds (line 239)
RECURSIVE Walk(_, _, _, _, _)
Walk(d, results, files, keywords, max_results) ==
    IF d > Len(Tree) THEN results
    ELSE LET after == WalkFiles(d, 1, results, files, keywords, max_results)
         IN IF ReachedMax(Len(after), max_results)
            THEN after
            ELSE Walk(d + 1, after, files, keywords, max_results)

\* onedrive_search.py 89: the f-string over (keywords, file_types,
\* max_results); for the calls sampled here (one keyword list, no file_types,
\* integer max_results) different arguments give different keys
CacheKey(keywords, file_types, max_results) == <<keywords, file_types, max_results>>

NoEntry == [has |-> FALSE, results |-> <<>>, timestamp |-> 0]

\* onedrive_search.py 245-248
Entry(results, t) == [has |-> TRUE, results |-> results, timestamp |-> t]

Fresh_mutNeverExpires(entry, t) == entry.has

\* onedrive_search.py 92-98: the entry exists and is younger than the expiry
Fresh(entry, t) == entry.has /\ t - entry.timestamp < CacheExpiry

\* arguments of the sampled calls
Keywords == << <<"r", "p">> >>

MaxResultsValues == {0, 1, 2}

SearchArgs ==
    {[keywords |-> Keywords, max_results |-> m, use_cache |-> TRUE] :
        m \in MaxResultsValues}
    \cup {[keywords |-> Keywords, max_results |-> 1, use_cache |-> FALSE]}

KeyOf(args) == CacheKey(args.keywords, "None", args.max_results)

CacheKeys == {KeyOf(a) : a \in SearchArgs}

NoCall == [args |-> [keywords |-> <<>>, max_results |-> 0, use_cache |-> FALSE],
           time |-> 0, path |-> "none", ret |-> <<>>, before |-> NoEntry]

SearchInit ==
    /\ now = 0
    /\ nticks = 0
    /\ fs \in {f \in [FileIds -> {0, 1}] : \A i \in FileIds : f[i] \in Versions(i)}
    /\ cache = [k \in CacheKeys |-> NoEntry]
    /\ ncalls = 0
    /\ sprev = NoCall
    /\ scall = NoCall
    /\ MainIdle
    /\ VerIdle
    /\ ContIdle
    /\ FunIdle

\* time passes
Tick ==
    /\ nticks < MaxTicks
    /\ \E d \in TickSizes : now' = now + d
    /\ nticks' = nticks + 1
    /\ UNCHANGED <<fs, cache, ncalls, sprev, scall>>
    /\ UNCHANGED <<mainVars, verVars, contVars, funVars>>

\* a file under the base directory is added, removed or modified
ChangeFile ==
    /\ \E f \in FileIds : \E v \in Versions(f) :
         /\ v # fs[f]
         /\ fs' = [fs EXCEPT ![f] = v]
    /\ UNCHANGED <<now, nticks, cache, ncalls, sprev, scall>>
    /\ UNCHANGED <<mainVars, verVars, contVars, funVars>>

\* the record of a call: its arguments, when it was made, the entry it found
\* under its key, the path it took ("hit": returned from the cache, "walked":
\* the walk completed, "raised": the walk raised) and what it returned
Call(args, path, ret) ==
    [args |-> args, time |-> now, path |-> path, ret |-> ret,
     before |-> cache[KeyOf(args)]]

\* onedrive_search.py 85-100: a call answered from the cache
SearchHit(args) ==
    /\ ncalls < MaxCalls
    /\ args.use_cache
    /\ Fresh(cache[KeyOf(args)], now)
    /\ scall' = Call(args, "hit", cache[KeyOf(args)].results)
    /\ sprev' = scall
    /\ ncalls' = ncalls + 1
    /\ UNCHANGED <<now, nticks, fs, cache>>
    /\ UNCHANGED <<mainVars, verVars, contVars, funVars>>

MustWalk_mutAlways(args) == TRUE

\* the cache check of lines 92-98 fails
MustWalk(args) == ~(args.use_cache /\ Fresh(cache[KeyOf(args)], now))

\* onedrive_search.py 102-249: the walk completes, its result is stored
SearchWalk(args) ==
    /\ ncalls < MaxCalls
    /\ MustWalk(args)
    /\ LET results == Walk(1, <<>>, fs, args.keywords, args.max_results)
       IN /\ cache' = [cache EXCEPT ![KeyOf(args)] = Entry(results, now)]
          /\ scall' = Call(args, "walked", results)
    /\ sprev' = scall
    /\ ncalls' = ncalls + 1
    /\ UNCHANGED <<now, nticks, fs>>
    /\ UNCHANGED <<mainVars, verVars, contVars, funVars>>

\* the states of the list "results" during a walk that would return w
Prefixes(w) == {SubSeq(w, 1, k) : k \in 0..Len(w)}

ExceptReturn_mutPartial(partial) == partial

\* onedrive_search.py 250-253: what the except block returns when the walk
\* raised with the records of partial collected so far
ExceptReturn(partial) == <<>>

CacheAfterRaise_mutStoresEmpty(c, key, t) == [c EXCEPT ![key] = Entry(<<>>, t)]

\* onedrive_search.py 244-253: the cache c after a walk that raised: the
\* assignment of lines 245-248 was not reached, the except block has none
CacheAfterRaise(c, key, t) == c

\* onedrive_search.py 188-253: the walk raises at some point; the except
\* block returns, and nothing is stored
SearchRaises(args) ==
    /\ ncalls < MaxCalls
    /\ MustWalk(args)
    /\ \E partial \in Prefixes(Walk(1, <<>>, fs, args.keywords, args.max_results)) :
         scall' = Call(args, "raised", ExceptReturn(partial))
    /\ cache' = CacheAfterRaise(cache, KeyOf(args), now)
    /\ sprev' = scall
    /\ ncalls' = ncalls + 1
    /\ UNCHANGED <<now, nticks, fs>>
    /\ UNCHANGED <<mainVars, verVars, contVars, funVars>>

SearchNext ==
    \/ Tick
    \/ ChangeFile
    \/ \E args \in SearchArgs :
         \/ SearchHit(args)
         \/ SearchWalk(args)
         \/ SearchRaises(args)

SpecSearch == SearchInit /\ [][SearchNext]_vars

(***************************************************************************)
(* search_files called from several worker threads: the steps of one call  *)
(* interleave with the steps of the others on the shared search_cache.     *)
(* scall[t] is the frame of thread t, sprev the log of the pairs stored.   *)
(***************************************************************************)
MaxThreads == 2

ThreadIds == 1..MaxThreads

\* the calls made in all, by all the threads
MaxThreadCalls == 3

MaxExpiries == 1

NoFrame == [pc |-> "idle", args |-> NoCall.args, results |-> <<>>]

ThreadInit ==
    /\ now = 0
    /\ nticks = 0
    /\ fs = [f \in FileIds |-> 1]
    /\ cache = [k \in CacheKeys |-> NoEntry]
    /\ ncalls = 0
    /\ sprev = {}
    /\ scall = [t \in ThreadIds |-> NoFrame]
    /\ MainIdle
    /\ VerIdle
    /\ ContIdle
    /\ FunIdle

\* the frame of a thread whose call has returned the list ret: the thread is
\* idle again, the list is the caller's
Returned(ret) == NoFrame

ThreadFrame(t, frame) ==
    /\ scall' = [scall EXCEPT ![t] = frame]
    /\ UNCHANGED <<mainVars, verVars, contVars, funVars>>

\* onedrive_search.py 68-90: thread t enters search_files and builds the key
\* (idle threads are alike: the one of the lowest number takes the call)
ThreadCall(t, args) ==
    /\ scall[t].pc = "idle"
    /\ \A u \in ThreadIds : u < t => scall[u].pc # "idle"
    /\ ncalls < MaxThreadCalls
    /\ ncalls' = ncalls + 1
    /\ ThreadFrame(t, [NoFrame EXCEPT !.pc = "lookup", !.args = args])
    /\ UNCHANGED <<now, nticks, fs, cache, sprev>>

\* onedrive_search.py 92: use_cache and cache_key in self.search_cache
ThreadLookup(t) ==
    /\ scall[t].pc = "lookup"
    /\ ThreadFrame(t, [scall[t] EXCEPT !.pc =
           IF scall[t].args.use_cache /\ cache[KeyOf(scall[t].args)].has
           THEN "read" ELSE "walk"])
    /\ UNCHANGED <<now, nticks, fs, cache, ncalls, sprev>>

\* onedrive_search.py 93-100: the entry is read and its age tested; a fresh
\* entry's list is returned
ThreadRead(t) ==
    /\ scall[t].pc = "read"
    /\ LET entry == cache[KeyOf(scall[t].args)]
       IN ThreadFrame(t, IF Fresh(entry, now)
                         THEN Returned(entry.results)
                         ELSE [scall[t] EXCEPT !.pc = "walk"])
    /\ UNCHANGED <<now, nticks, fs, cache, ncalls, sprev>>

\* onedrive_search.py 102-243: the walk completes with the list results
ThreadWalk(t) ==
    /\ scall[t].pc = "walk"
    /\ ThreadFrame(t, [scall[t] EXCEPT !.pc = "store", !.results =
           Walk(1, <<>>, fs, scall[t].args.keywords, scall[t].args.max_results)])
    /\ UNCHANGED <<now, nticks, fs, cache, ncalls, sprev>>

StoredEntry_mutInPlace(old, results, t) ==
    [old EXCEPT !.has = TRUE, !.results = results]

\* onedrive_search.py 245-248: the value assigned under the key: a new
\* dictionary, whatever entry old was there
StoredEntry(old, results, t) == Entry(results, t)

\* onedrive_search.py 244-248: one assignment stores the pair
ThreadStore(t) ==
    /\ scall[t].pc = "store"
    /\ LET key == KeyOf(scall[t].args)
       IN /\ cache' = [cache EXCEPT ![key] =
                          StoredEntry(cache[key], scall[t].results, now)]
          /\ sprev' = sprev \cup {<<key, Entry(scall[t].results, now)>>}
    /\ ThreadFrame(t, Returned(scall[t].results))
    /\ UNCHANGED <<now, nticks, fs, ncalls>>

\* onedrive_search.py 188-253: the walk of thread t raises; the except block
\* gives the empty list
ThreadRaises(t) ==
    /\ scall[t].pc = "walk"
    /\ ThreadFrame(t, Returned(ExceptReturn(<<>>)))
    /\ UNCHANGED <<now, nticks, fs, cache, ncalls, sprev>>

\* time passes while the threads run: long enough for any entry to expire
Expire ==
    /\ nticks < MaxExpiries
    /\ nticks' = nticks + 1
    /\ now' = now + CacheExpiry + 1
    /\ UNCHANGED <<fs, cache, ncalls, sprev, scall>>
    /\ UNCHANGED <<mainVars, verVars, contVars, funVars>>

\* the calls the threads make: two keys, one of them also without the cache
ThreadArgs == {a \in SearchArgs : a.max_results > 0}

search_files(t) ==
    \/ \E args \in ThreadArgs : ThreadCall(t, args)
    \/ ThreadLookup(t)
    \/ ThreadRead(t)
    \/ ThreadWalk(t)
    \/ ThreadStore(t)
    \/ ThreadRaises(t)

ThreadNext ==
    \/ Expire
    \/ ChangeFile
    \/ \E t \in ThreadIds : search_files(t)

SpecThreads == ThreadInit /\ [][ThreadNext]_vars

(***************************************************************************)
(* get_relevant_content, lines 361-405: the assembly of the output.  Only  *)
(* the lengths of the strings are kept; the lengths of the fixed texts are *)
(* those of the literals of the code.                                      *)
(***************************************************************************)
MaxFiles == 5

\* onedrive_search.py 274: the default of max_chars
DefaultMaxChars == 8000

\* onedrive_search.py 384: the preview keeps at most 2000 characters
PreviewCap == 2000

\* onedrive_search.py 394: characters set aside for the closing message
Reserve == 100

\* len("...\n"), line 396
EllipsisLen == 4

\* number of decimal digits of n (n < 100)
Digits(n) == IF n < 10 THEN 1 ELSE 2

\* line 371: len(f"--- {n}件の関連ファイルが見つかりました ---\n\n")
HeaderLen(n) == 26 + Digits(n)

\* line 369: len(f"キーワード '{keywords_str}' に関連するファイルは見つかりませんでした。")
NotFoundLen(keywordsLen) == 30 + keywordsLen

\* line 400: len(f"\n（残り{k}件のファイルは文字数制限のため表示されません）")
MarkerLen(k) == 27 + Digits(k)

Min(a, b) == IF a < b THEN a ELSE b

\* lines 384-389: len(file_content) for the file of index i (from 0), whose
\* name has nameLen characters, whose date has modifiedLen characters and
\* whose extracted content has contentLen characters
BlockLen(i, nameLen, modifiedLen, contentLen) ==
    (16 + Digits(i + 1) + nameLen) + (7 + modifiedLen)
        + (Min(PreviewCap, contentLen) + 2)

\* sampled inputs: max_chars, the length of the joined keywords, of a file
\* name ("rp0.txt"), of a date ("2024-10-26 12:00:00"), of a file's content
MaxCharsValues == {10, 2100, DefaultMaxChars}

KeywordsLen == 2

NameLen == 7

ModifiedLen == 19

ContentLens == {0, 1940, 2000, 3000}

ContentInit ==
    /\ cin \in [max_chars : MaxCharsValues, nresults : 0..MaxFiles]
    /\ cpc = "search"
    /\ ci = 0
    /\ total_chars = 0
    /\ outlen = 0
    /\ cflags = [truncated |-> 0, marker |-> FALSE]
    /\ MainIdle
    /\ VerIdle
    /\ SrchIdle
    /\ FunIdle

\* lines 361-369: search_files returned nothing, a message is returned
ContentNotFound ==
    /\ cpc = "search"
    /\ cin.nresults = 0
    /\ outlen' = NotFoundLen(KeywordsLen)
    /\ cpc' = "done"
    /\ UNCHANGED <<cin, ci, total_chars, cflags>>
    /\ UNCHANGED <<mainVars, verVars, srchVars, funVars>>

\* lines 371-372: the header line
ContentHeader ==
    /\ cpc = "search"
    /\ cin.nresults > 0
    /\ outlen' = HeaderLen(cin.nresults)
    /\ total_chars' = HeaderLen(cin.nresults)
    /\ cpc' = "loop"
    /\ UNCHANGED <<cin, ci, cflags>>
    /\ UNCHANGED <<mainVars, verVars, srchVars, funVars>>

\* line 392: the block does not fit
OverBudget(total, blockLen, max_chars) == total + blockLen > max_chars

\* line 394
Remaining(total, max_chars) == max_chars - total - Reserve

\* lines 402-405: the block (whole or truncated) is appended; after the last
\* result the loop ends and the text is returned
Appended(len) ==
    /\ outlen' = outlen + len
    /\ total_chars' = total_chars + len
    /\ ci' = ci + 1
    /\ cpc' = IF ci + 1 = cin.nresults THEN "done" ELSE "loop"

\* lines 374-392, 402-403: a block that fits is appended whole
AppendBlock ==
    /\ cpc = "loop"
    /\ \E c \in ContentLens :
         LET len == BlockLen(ci, NameLen, ModifiedLen, c)
         IN /\ ~OverBudget(total_chars, len, cin.max_chars)
            /\ Appended(len)
    /\ UNCHANGED <<cin, cflags>>
    /\ UNCHANGED <<mainVars, verVars, srchVars, funVars>>

\* lines 392-396, 402-403: a block that does not fit is cut to the remaining
\* room and appended with "...\n"; the loop goes on
TruncateBlock ==
    /\ cpc = "loop"
    /\ \E c \in ContentLens :
         LET len == BlockLen(ci, NameLen, ModifiedLen, c)
             remaining == Remaining(total_chars, cin.max_chars)
         IN /\ OverBudget(total_chars, len, cin.max_chars)
            /\ remaining > 0
            /\ Appended(Min(len, remaining) + EllipsisLen)
    /\ cflags' = [cflags EXCEPT !.truncated = @ + 1]
    /\ UNCHANGED cin
    /\ UNCHANGED <<mainVars, verVars, srchVars, funVars>>

\* lines 392-401: no room is left; the omission marker is appended and the
\* loop is left
OmitRest ==
    /\ cpc = "loop"
    /\ \E c \in ContentLens :
         LET len == BlockLen(ci, NameLen, ModifiedLen, c)
         IN /\ OverBudget(total_chars, len, cin.max_chars)
            /\ Remaining(total_chars, cin.max_chars) <= 0
    /\ outlen' = outlen + MarkerLen(cin.nresults - ci)
    /\ cflags' = [cflags EXCEPT !.marker = TRUE]
    /\ cpc' = "done"
    /\ UNCHANGED <<cin, ci, total_chars>>
    /\ UNCHANGED <<mainVars, verVars, srchVars, funVars>>

ContentNext ==
    \/ ContentNotFound
    \/ ContentHeader
    \/ AppendBlock
    \/ TruncateBlock
    \/ OmitRest

SpecContent == ContentInit /\ [][ContentNext]_vars

(***************************************************************************)
(* FileExtractor.extract_file_content (file_extractor.py).  A returned     *)
(* string is the sequence of its parts, each with its number of            *)
(* characters: the fixed text of the f-string and the values it inserts.   *)
(***************************************************************************)
\* file_extractor.py 77: 100 MiB
SizeLimit == 100 * 1024 * 1024

\* the number of characters of the fixed texts of the returned f-strings
LitLen(name) ==
    CASE name = "missing" -> 36           \* line 73
      [] name = "too_large" -> 28         \* line 78
      [] name = "no_access" -> 23         \* line 82
      [] name = "unsupported" -> 15       \* line 101
      [] name = "permission_error" -> 40  \* line 105
      [] name = "error" -> 11             \* line 109
      [] name = "text_error" -> 17        \* line 138
      [] name = "pdf_error" -> 10         \* line 218
      [] name = "docx_error" -> 11        \* line 301
      [] name = "xlsx_error" -> 12        \* line 381
      [] name = "pptx_error" -> 17        \* line 460
      [] name = "info_full" -> 26         \* line 477
      [] name = "info_name" -> 7          \* line 481
      [] name = "sep" -> 2                \* "\n\n"

Lit(name) == [part |-> name, len |-> LitLen(name)]

Val(name, n) == [part |-> name, len |-> n]

RECURSIVE StrLen(_)
StrLen(parts) == IF parts = <<>> THEN 0 ELSE Head(parts).len + StrLen(Tail(parts))

\* file_extractor.py 463-481: _get_file_info; when os.stat raises, only the
\* name is given (size text "0 bytes" .. "99.9 MB", date text of 20 characters)
FileInfo(statOk) ==
    IF statOk
    THEN <<Lit("info_full"), Val("basename", NameLen), Val("size", 7), Val("mtime", 20)>>
    ELSE <<Lit("info_name"), Val("basename", NameLen)>>

RichTypes == {"pdf", "docx", "xlsx", "pptx"}

TextTypes == {"txt", "md", "csv", "json", "xml", "html", "htm", "log", "py", "js", "css"}

\* sampled extensions: the four rich types, one text type, one unknown type
ExtSamples == RichTypes \cup {"txt", "zip"}

\* sampled sizes in bytes, around the limit
SizeSamples == {0, SizeLimit, SizeLimit + 1}

\* sampled lengths of a file's text, of a command's output, of str(e)
TextLens == {0, 40}

ErrLen == 12

\* file_extractor.py 86-101: where the extension sends the call
Dispatch(e) ==
    IF e \in RichTypes THEN "rich"
    ELSE IF e \in TextTypes THEN "text"
    ELSE "unsupported"

\* file_extractor.py 174-178, 260-263, 342-345, 421-424: a parser exception
\* is logged and the fallback is tried
AfterParserException == "fallback"

FallbackErrorText_mutNoInfo(info, e) == <<Lit(e \o "_error"), Val("str(e)", ErrLen)>>

\* file_extractor.py 216-218, 299-301, 379-381, 458-460: the fallback raised
FallbackErrorText(info, e) ==
    info \o <<Lit("sep"), Lit(e \o "_error"), Val("str(e)", ErrLen)>>

NoReturn == [ret |-> <<>>, raised |-> FALSE, parserThrew |-> FALSE, info |-> <<>>]

ExtractInit ==
    /\ fin \in [exists : BOOLEAN, size : SizeSamples, readable : BOOLEAN,
               ext : ExtSamples, lib : BOOLEAN]
    /\ fpc = "checks"
    /\ fout = NoReturn
    /\ MainIdle
    /\ VerIdle
    /\ SrchIdle
    /\ ContIdle

Returns(parts) ==
    /\ fout' = [fout EXCEPT !.ret = parts]
    /\ fpc' = "done"
    /\ UNCHANGED fin
    /\ UNCHANGED <<mainVars, verVars, srchVars, contVars>>

GoesTo(pc) ==
    /\ fpc' = pc
    /\ UNCHANGED <<fin, fout>>
    /\ UNCHANGED <<mainVars, verVars, srchVars, contVars>>

\* file_extractor.py 71-83: the three refusals
ExtractRefuses ==
    /\ fpc = "checks"
    /\ IF ~fin.exists
       THEN Returns(<<Lit("missing"), Val("basename", NameLen)>>)
       ELSE IF fin.size > SizeLimit
       THEN Returns(<<Lit("too_large"), Val("basename", NameLen), Val("megabytes", 5)>>)
       ELSE /\ ~fin.readable
            /\ Returns(<<Lit("no_access"), Val("basename", NameLen)>>)

\* file_extractor.py 76, 103-109: os.path.getsize or os.access raises (the
\* file vanished, a parent directory is closed): the two except clauses
ExtractChecksRaise ==
    /\ fpc = "checks"
    /\ fin.exists
    /\ \/ Returns(<<Lit("permission_error"), Val("basename", NameLen)>>)
       \/ Returns(<<Lit("error"), Val("str(e)", ErrLen)>>)

\* file_extractor.py 85-97: the checks pass, the extension is looked at
ExtractDispatch ==
    /\ fpc = "checks"
    /\ fin.exists /\ fin.size <= SizeLimit /\ fin.readable
    /\ GoesTo(Dispatch(fin.ext))

\* file_extractor.py 98-101
ExtractUnsupported ==
    /\ fpc = "unsupported"
    /\ \E statOk \in BOOLEAN :
         Returns(<<Lit("unsupported"), Val("ext", Len(fin.ext) + 1)>> \o FileInfo(statOk))

\* file_extractor.py 112-138: _extract_text reads the file, or open raises
ExtractText ==
    /\ fpc = "text"
    /\ \/ \E statOk \in BOOLEAN, n \in TextLens :
            Returns(FileInfo(statOk) \o <<Lit("sep"), Val("content", n)>>)
       \/ Returns(<<Lit("text_error"), Val("str(e)", ErrLen)>>)

\* file_extractor.py 142: file_info = self._get_file_info(file_path)
RichInfo ==
    /\ fpc = "rich"
    /\ \E statOk \in BOOLEAN : fout' = [fout EXCEPT !.info = FileInfo(statOk)]
    /\ fpc' = "parse"
    /\ UNCHANGED fin
    /\ UNCHANGED <<mainVars, verVars, srchVars, contVars>>

\* file_extractor.py 145-172 (and the same in _extract_docx/_xlsx/_pptx): the
\* library is there and the parser succeeds
RichParse ==
    /\ fpc = "parse"
    /\ fin.lib
    /\ \E n \in TextLens : Returns(fout.info \o <<Lit("sep"), Val("content", n)>>)

\* file_extractor.py 174-178: the parser throws
RichParseThrows ==
    /\ fpc = "parse"
    /\ fin.lib
    /\ fout' = [fout EXCEPT !.parserThrew = TRUE]
    /\ fpc' = AfterParserException
    /\ UNCHANGED fin
    /\ UNCHANGED <<mainVars, verVars, srchVars, contVars>>

\* file_extractor.py 179-181: the library is not installed
RichNoLibrary ==
    /\ fpc = "parse"
    /\ ~fin.lib
    /\ GoesTo("fallback")

\* file_extractor.py 183-218: _extract_pdf_fallback runs PowerShell and
\* returns the file information followed by its output, or Popen raises
RichFallback ==
    /\ fpc = "fallback"
    /\ \/ \E n \in TextLens : Returns(fout.info \o <<Lit("sep"), Val("stdout", n)>>)
       \/ Returns(FallbackErrorText(fout.info, fin.ext))

ExtractNext ==
    \/ ExtractRefuses
    \/ ExtractChecksRaise
    \/ ExtractDispatch
    \/ ExtractUnsupported
    \/ ExtractText
    \/ RichInfo
    \/ RichParse
    \/ RichParseThrows
    \/ RichNoLibrary
    \/ RichFallback

SpecExtract == ExtractInit /\ [][ExtractNext]_vars

(***************************************************************************)
(* extract_date_from_query (async_processor.py) and has_date_in_query      *)
(* (ollama_client.py).  A query is the sequence of its characters; "Y",    *)
(* "M" and "D" stand for the characters 年, 月 and 日, "a" for any other    *)
(* word character, " " for white space.                                    *)
(***************************************************************************)
DigitChars == {"0", "1", "2", "3", "4", "5", "6", "7", "8", "9"}

IsDigit(c) == c \in DigitChars

\* int() of one digit
DigitVal(c) == CHOOSE n \in 0..9 : <<"0", "1", "2", "3", "4", "5", "6", "7", "8", "9">>[n + 1] = c

\* int() of a two-digit string
IntOf(two) == 10 * DigitVal(two[1]) + DigitVal(two[2])

\* \w of the re module
IsWord(c) == IsDigit(c) \/ c \in {"Y", "M", "D", "a"}

\* \d{n} at position i
AllDigits(s, i, n) == (i + n - 1 <= Len(s)) /\ (\A k \in i..(i + n - 1) : IsDigit(s[k]))

CharAt(s, i, cs) == (i <= Len(s)) /\ (s[i] \in cs)

\* \b in front of position i
Boundary(s, i) ==
    LET before == (i > 1) /\ IsWord(s[i - 1])
        after == (i <= Len(s)) /\ IsWord(s[i])
    IN  before # after

\* (\d{1,2}) followed by one of the characters cs: the number of digits taken
DigitsThen(s, i, cs) ==
    IF AllDigits(s, i, 2) /\ CharAt(s, i + 2, cs) THEN 2
    ELSE IF AllDigits(s, i, 1) /\ CharAt(s, i + 1, cs) THEN 1
    ELSE 0

\* (\d{1,2}) at the end of a pattern: greedy
DigitsGreedy(s, i) ==
    IF AllDigits(s, i, 2) THEN 2 ELSE IF AllDigits(s, i, 1) THEN 1 ELSE 0

\* str.zfill(2)
zfill(d) == IF Len(d) < 2 THEN <<"0">> \o d ELSE d

NoDate == [found |-> FALSE, year |-> <<>>, month |-> <<>>, day |-> <<>>, fmt |-> "none"]

Date(y, m, d, f) == [found |-> TRUE, year |-> y, month |-> m, day |-> d, fmt |-> f]

\* re.search: the leftmost of the positions where the pattern matches, 0
\* when there is none
Leftmost(hits) ==
    IF hits = {} THEN 0 ELSE CHOOSE i \in hits : \A j \in hits : i <= j

\* (\d{4})年(\d{1,2})月(\d{1,2})日
JapaneseAt(s, i) ==
    /\ AllDigits(s, i, 4)
    /\ CharAt(s, i + 4, {"Y"})
    /\ DigitsThen(s, i + 5, {"M"}) > 0
    /\ DigitsThen(s, i + 6 + DigitsThen(s, i + 5, {"M"}), {"D"}) > 0

japanese_date_match(s) ==
    LET i == Leftmost({k \in 1..Len(s) : JapaneseAt(s, k)})
        m == DigitsThen(s, i + 5, {"M"})
        d == DigitsThen(s, i + 6 + m, {"D"})
    IN  IF i = 0 THEN NoDate
        ELSE Date(SubSeq(s, i, i + 3), zfill(SubSeq(s, i + 5, i + 4 + m)),
                  zfill(SubSeq(s, i + 6 + m, i + 5 + m + d)), "japanese")

\* (\d{4})[/-](\d{1,2})[/-](\d{1,2})
SlashAt(s, i) ==
    /\ AllDigits(s, i, 4)
    /\ CharAt(s, i + 4, {"/", "-"})
    /\ DigitsThen(s, i + 5, {"/", "-"}) > 0
    /\ DigitsGreedy(s, i + 6 + DigitsThen(s, i + 5, {"/", "-"})) > 0

slash_date_match(s) ==
    LET i == Leftmost({k \in 1..Len(s) : SlashAt(s, k)})
        m == DigitsThen(s, i + 5, {"/", "-"})
        d == DigitsGreedy(s, i + 6 + m)
    IN  IF i = 0 THEN NoDate
        ELSE Date(SubSeq(s, i, i + 3), zfill(SubSeq(s, i + 5, i + 4 + m)),
                  zfill(SubSeq(s, i + 6 + m, i + 5 + m + d)), "slash")

\* \b(\d{4})(\d{2})(\d{2})\b
NumericAt(s, i) ==
    /\ Boundary(s, i)
    /\ AllDigits(s, i, 8)
    /\ Boundary(s, i + 8)

numeric_date_match(s) ==
    LET i == Leftmost({k \in 1..Len(s) : NumericAt(s, k)})
    IN  IF i = 0 THEN NoDate
        ELSE Date(SubSeq(s, i, i + 3), SubSeq(s, i + 4, i + 5), SubSeq(s, i + 6, i + 7),
                  "numeric")

\* str.split(): the words between white space
RECURSIVE Split(_, _)
Split(s, word) ==
    IF s = <<>> THEN (IF word = <<>> THEN <<>> ELSE <<word>>)
    ELSE IF Head(s) = " "
         THEN (IF word = <<>> THEN <<>> ELSE <<word>>) \o Split(Tail(s), <<>>)
         ELSE Split(Tail(s), Append(word, Head(s)))

\* word.isdigit() and len(word) == 8, then 1 <= month <= 12 and 1 <= day <= 31
ValidToken(w) ==
    /\ Len(w) = 8
    /\ AllDigits(w, 1, 8)
    /\ 1 <= IntOf(SubSeq(w, 5, 6)) /\ IntOf(SubSeq(w, 5, 6)) <= 12
    /\ 1 <= IntOf(SubSeq(w, 7, 8)) /\ IntOf(SubSeq(w, 7, 8)) <= 31

\* the loop over query.split(): the first valid word
token_date_match(s) ==
    LET words == Split(s, <<>>)
        hits == {k \in 1..Len(words) : ValidToken(words[k])}
        k == CHOOSE k \in hits : \A j \in hits : k <= j
    IN  IF hits = {} THEN NoDate
        ELSE Date(SubSeq(words[k], 1, 4), SubSeq(words[k], 5, 6), SubSeq(words[k], 7, 8),
                  "numeric")

\* the order in which the four styles are tried
StyleOrder_mutNumericFirst(s) ==
    <<numeric_date_match(s), japanese_date_match(s), slash_date_match(s), token_date_match(s)>>

StyleOrder(s) ==
    <<japanese_date_match(s), slash_date_match(s), numeric_date_match(s), token_date_match(s)>>

\* async_processor.py 138-195: the first style that matches, else None
extract_date_from_query(query) ==
    LET tried == StyleOrder(query)
        hits == {k \in 1..Len(tried) : tried[k].found}
    IN  IF hits = {} THEN NoDate
        ELSE tried[CHOOSE k \in hits : \A j \in hits : k <= j]

\* ollama_client.py 192-245: the same four steps, without the format name
has_date_in_query(query) ==
    LET r == extract_date_from_query(query)
    IN  [has_date |-> r.found, date_info |-> <<r.year, r.month, r.day>>]

\* a valid 8-digit date
TokValid == <<"2", "0", "2", "4", "1", "0", "2", "6">>

\* month 13
TokBadMonth == <<"2", "0", "2", "4", "1", "3", "2", "6">>

\* day 32
TokBadDay == <<"2", "0", "2", "4", "1", "0", "3", "2">>

\* an 8-digit numeral that is no date
TokUnrelated == <<"1", "2", "3", "4", "5", "6", "7", "8">>

\* 2023年1月2日
TokJapanese == <<"2", "0", "2", "3", "Y", "1", "M", "2", "D">>

\* 2022/03/4
TokSlash == <<"2", "0", "2", "2", "/", "0", "3", "/", "4">>

\* 2021-5-06
TokHyphen == <<"2", "0", "2", "1", "-", "5", "-", "0", "6">>

\* a date followed by a word character
TokGlued == <<"2", "0", "2", "4", "1", "0", "2", "6", "a">>

\* nine digits
TokNine == <<"2", "0", "2", "4", "1", "0", "2", "6", "1">>

\* a word without digits
TokWord == <<"a", "a">>

\* 2023年01月02日
TokJapanesePadded == <<"2", "0", "2", "3", "Y", "0", "1", "M", "0", "2", "D">>

\* a valid 8-digit date followed by a comma
TokComma == <<"2", "0", "2", "4", "1", "0", "2", "6", ",">>

TokenSamples ==
    {TokValid, TokBadMonth, TokBadDay, TokUnrelated, TokJapanese, TokSlash, TokHyphen,
     TokGlued, TokNine, TokWord, TokJapanesePadded, TokComma}

\* the sampled queries: one word, or two words with white space between
QuerySamples ==
    TokenSamples \cup {a \o <<" ">> \o b : a \in TokenSamples, b \in TokenSamples}

DateInit ==
    /\ fin \in QuerySamples
    /\ fpc = "call"
    /\ fout = NoDate
    /\ MainIdle
    /\ VerIdle
    /\ SrchIdle
    /\ ContIdle

\* one call of extract_date_from_query
ExtractDate ==
    /\ fpc = "call"
    /\ fout' = extract_date_from_query(fin)
    /\ fpc' = "returned"
    /\ UNCHANGED fin
    /\ UNCHANGED <<mainVars, verVars, srchVars, contVars>>

DateNext == ExtractDate

SpecDate == DateInit /\ [][DateNext]_vars

(***************************************************************************)
(* get_relevant_content, lines 290-353: the keyword list made from the     *)
(* query.  "h" stands for the character 報.                                 *)
(***************************************************************************)
\* onedrive_search.py 294-325: the three searches and the if/elif chain
QueryDate(query) ==
    IF japanese_date_match(query).found THEN japanese_date_match(query)
    ELSE IF slash_date_match(query).found THEN slash_date_match(query)
    ELSE numeric_date_match(query)

\* lines 308, 315, 322: date_str = f"{year}年{month}月{day}日"
DateStr(d) == d.year \o <<"Y">> \o d.month \o <<"M">> \o d.day \o <<"D">>

\* line 340: the characters removed by word.strip(...)
StripChars == {",", ".", ";", ":", "!", "?", "(", ")", "[", "]", "{", "}", "\"", "'"}

RECURSIVE LStrip(_)
LStrip(w) == IF w # <<>> /\ Head(w) \in StripChars THEN LStrip(Tail(w)) ELSE w

RECURSIVE RStrip(_)
RStrip(w) ==
    IF w # <<>> /\ w[Len(w)] \in StripChars THEN RStrip(SubSeq(w, 1, Len(w) - 1)) ELSE w

Strip(w) == RStrip(LStrip(w))

\* str.lower() on the sampled characters
Lower(str) ==
    [i \in 1..Len(str) |->
        IF str[i] = "T" THEN "t" ELSE IF str[i] = "X" THEN "x"
        ELSE IF str[i] = "O" THEN "o" ELSE IF str[i] = "N" THEN "n" ELSE str[i]]

\* lines 327-329: the stop words that the sampled characters can spell
StopWords == {<<"a">>, <<"o", "n">>}

\* lines 343-348: the word is kept unless date_str is found inside it
KeepWord(date_str, clean_word) ==
    date_str = <<>> \/ ~Contains(clean_word, date_str)

\* lines 339-348: the loop over query.split()
RECURSIVE AddWords(_, _, _)
AddWords(words, date_str, keywords) ==
    IF words = <<>> THEN keywords
    ELSE LET clean_word == Strip(Head(words))
             kept == /\ clean_word # <<>>
                     /\ Len(clean_word) > 1
                     /\ Lower(clean_word) \notin StopWords
                     /\ KeepWord(date_str, clean_word)
         IN  AddWords(Tail(words), date_str,
                      IF kept THEN Append(keywords, clean_word) ELSE keywords)

\* the word 日報
Nippo == <<"D", "h">>

AddBackup_mutNever(query, keywords) == keywords

\* lines 350-353: with fewer than two keywords 日報 is added
AddBackup(query, keywords) ==
    IF /\ Len(keywords) < 2
       /\ ~Contains(Lower(query), Nippo)
       /\ \A k \in 1..Len(keywords) : ~Contains(keywords[k], Nippo)
    THEN Append(keywords, Nippo)
    ELSE keywords

\* lines 290-353: date_str and the keyword list
BuildKeywords(query) ==
    LET d == QueryDate(query)
        date_str == IF d.found THEN DateStr(d) ELSE <<>>
        first == IF d.found THEN <<date_str>> ELSE <<>>
    IN  [date |-> d, date_str |-> date_str,
         keywords |-> AddBackup(query, AddWords(Split(query, <<>>), date_str, first))]

NoKeywords == [date |-> NoDate, date_str |-> <<>>, keywords |-> <<>>]

\* queries that leave the loop over the words with nothing: the empty
\* string, white space, punctuation, one character, a stop word; and queries
\* with the word 日報, alone, in brackets, glued to a date, cut in two
EdgeQueries ==
    {<<>>, <<" ">>, <<" ", " ">>, <<"a">>, <<",">>, <<"(", ")">>,
     <<"o", "n">>, <<"O", "N">>, <<"O", "n", " ", "a">>, <<"(", "o", "n", ")">>,
     Nippo, <<"(">> \o Nippo \o <<")">>, TokJapanese \o Nippo,
     Nippo \o TokJapanese, <<"D", " ", "h">>, Nippo \o <<" ", "a">>,
     <<"a", " ">> \o Nippo \o <<" ", "o", "n">>}

\* line 355: the keyword list is empty, the guidance text is returned
GuidanceReturned(keywords) == keywords = <<>>

KeywordsInit ==
    /\ fin \in QuerySamples \cup EdgeQueries
    /\ fpc = "call"
    /\ fout = NoKeywords
    /\ MainIdle
    /\ VerIdle
    /\ SrchIdle
    /\ ContIdle

\* get_relevant_content up to the call of search_files (line 361)
ExtractKeywords ==
    /\ fpc = "call"
    /\ fout' = BuildKeywords(fin)
    /\ fpc' = IF GuidanceReturned(BuildKeywords(fin).keywords) THEN "guidance"
              ELSE "keywords"
    /\ UNCHANGED fin
    /\ UNCHANGED <<mainVars, verVars, srchVars, contVars>>

KeywordsNext == ExtractKeywords

SpecKeywords == KeywordsInit /\ [][KeywordsNext]_vars

(***************************************************************************)
(* split_text_blocks and the limiting of the blocks in                     *)
(* send_ollama_response (teams_webhook.py 51-86).  Only the lengths of the *)
(* strings are kept.  A line of the answer is given by its length and by   *)
(* the numbers of "**" and of "* " in it.                                  *)
(***************************************************************************)
MaxLines == 11

\* teams_webhook.py 51: max_len
max_len == 900

\* teams_webhook.py 75
MAX_BLOCKS == 10

\* teams_webhook.py 76
MAX_TOTAL_LEN == 9000

Line(n, stars, bullets) == [len |-> n, stars |-> stars, bullets |-> bullets]

LineSamples ==
    {Line(0, 0, 0), Line(1, 0, 0), Line(450, 0, 0), Line(899, 0, 0), Line(900, 0, 0),
     Line(901, 0, 0), Line(902, 1, 0), Line(452, 0, 2), Line(9001, 0, 0)}

\* teams_webhook.py 57: line.replace("**", "").replace("* ", "・")
ConvertedLen(line) == line.len - 2 * line.stars - line.bullets

\* the answer: a first line followed by n equal lines
LineAt(text, i) == IF i = 1 THEN text.first ELSE text.rest

NumLines(text) == 1 + text.n

\* len(response): the lines and the newlines between them
ResponseLen(text) == text.first.len + text.n * (text.rest.len + 1)

RECURSIVE SumLens(_)
SumLens(bs) == IF bs = <<>> THEN 0 ELSE Head(bs) + SumLens(Tail(bs))

NoBlocks == [i |-> 0, blocks |-> <<>>, buf |-> 0, j |-> 0, kept |-> <<>>,
             total_len |-> 0, notice |-> FALSE]

SplitInit ==
    /\ fin \in [first : LineSamples, rest : LineSamples, n : 0..MaxLines]
    /\ fpc = "split"
    /\ fout = NoBlocks
    /\ MainIdle
    /\ VerIdle
    /\ SrchIdle
    /\ ContIdle

\* teams_webhook.py 58: the line does not fit in the buffer
BufferFull(buf, lineLen) == buf + lineLen + 1 > max_len

\* teams_webhook.py 55-62: one iteration of the loop over the lines
SplitLine ==
    /\ fpc = "split"
    /\ fout.i < NumLines(fin)
    /\ LET line == ConvertedLen(LineAt(fin, fout.i + 1))
       IN  fout' = IF BufferFull(fout.buf, line)
                   THEN [fout EXCEPT !.i = @ + 1, !.blocks = Append(@, fout.buf),
                                     !.buf = line]
                   ELSE [fout EXCEPT !.i = @ + 1,
                                     !.buf = @ + (IF @ > 0 THEN 1 ELSE 0) + line]
    /\ UNCHANGED <<fin, fpc>>
    /\ UNCHANGED <<mainVars, verVars, srchVars, contVars>>

\* teams_webhook.py 63-65: the last buffer, if not empty, is a block
SplitEnd ==
    /\ fpc = "split"
    /\ fout.i = NumLines(fin)
    /\ fout' = [fout EXCEPT !.blocks = IF fout.buf > 0 THEN Append(@, fout.buf) ELSE @]
    /\ fpc' = "limit"
    /\ UNCHANGED fin
    /\ UNCHANGED <<mainVars, verVars, srchVars, contVars>>

\* teams_webhook.py 81: the loop over the blocks is left
LimitReached(kept, total, block) ==
    Len(kept) >= MAX_BLOCKS \/ total + block > MAX_TOTAL_LEN

\* teams_webhook.py 80-84: a block is kept
LimitKeep ==
    /\ fpc = "limit"
    /\ fout.j < Len(fout.blocks)
    /\ ~LimitReached(fout.kept, fout.total_len, fout.blocks[fout.j + 1])
    /\ fout' = [fout EXCEPT !.j = @ + 1, !.kept = Append(@, fout.blocks[fout.j + 1]),
                            !.total_len = @ + fout.blocks[fout.j + 1]]
    /\ UNCHANGED <<fin, fpc>>
    /\ UNCHANGED <<mainVars, verVars, srchVars, contVars>>

\* teams_webhook.py 80-86: the loop ends or is left, the notice is added when
\* blocks or characters are missing
LimitEnd ==
    /\ fpc = "limit"
    /\ \/ fout.j = Len(fout.blocks)
       \/ /\ fout.j < Len(fout.blocks)
          /\ LimitReached(fout.kept, fout.total_len, fout.blocks[fout.j + 1])
    /\ fout' = [fout EXCEPT !.notice =
                  Len(fout.blocks) > MAX_BLOCKS \/ fout.total_len < ResponseLen(fin)]
    /\ fpc' = "done"
    /\ UNCHANGED fin
    /\ UNCHANGED <<mainVars, verVars, srchVars, contVars>>

SplitNext ==
    \/ SplitLine
    \/ SplitEnd
    \/ LimitKeep
    \/ LimitEnd

SpecSplit == SplitInit /\ [][SplitNext]_vars

(***************************************************************************)
(* search_files, lines 102-221: the classification of the keywords and the *)
(* test made on one file of the walk.  "s" stands for a character such as  *)
(* "²", for which isdigit() is true, that \d does not match and that int() *)
(* refuses.                                                                *)
(***************************************************************************)
\* lines 122-124, 131-133, 140-142: the three patterns of a date
DatePatterns(d) ==
    << d.year \o d.month \o d.day,
       d.year \o <<"-">> \o d.month \o <<"-">> \o d.day,
       d.year \o <<"/">> \o d.month \o <<"/">> \o d.day >>

\* lines 107-142: the date found in the keyword k by the first of the three
\* patterns that matches; the third is ^(\d{4})(\d{2})(\d{2})$
KeywordDate(k) ==
    IF japanese_date_match(k).found THEN japanese_date_match(k)
    ELSE IF slash_date_match(k).found THEN slash_date_match(k)
    ELSE IF Len(k) = 8 /\ AllDigits(k, 1, 8)
         THEN Date(SubSeq(k, 1, 4), SubSeq(k, 5, 6), SubSeq(k, 7, 8), "numeric")
         ELSE NoDate

\* str.isdigit()
IsDigitString(k) == k # <<>> /\ \A i \in 1..Len(k) : IsDigit(k[i]) \/ k[i] = "s"

\* lines 144-161: k.isdigit() and len(k) == 8 when the third pattern did not
\* match: some character is refused by int(), datetime(...) is not reached,
\* and the keyword, which holds no kana or kanji, goes to neither list
DroppedKeyword(k) == ~KeywordDate(k).found /\ Len(k) = 8 /\ IsDigitString(k)

\* lines 106-166: the loop over the keywords
RECURSIVE Classify(_, _, _)
Classify(keywords, date_keywords, search_terms) ==
    IF keywords = <<>>
    THEN [date_keywords |-> date_keywords, search_terms |-> search_terms]
    ELSE LET k == Head(keywords)
         IN  IF KeywordDate(k).found
             THEN Classify(Tail(keywords), date_keywords \o DatePatterns(KeywordDate(k)),
                           search_terms)
             ELSE IF DroppedKeyword(k)
             THEN Classify(Tail(keywords), date_keywords, search_terms)
             ELSE Classify(Tail(keywords), date_keywords, Append(search_terms, k))

\* lines 174-175: search_terms = keywords[:2]
FirstTwo_mutNone(keywords) == <<>>

FirstTwo(keywords) == SubSeq(keywords, 1, Min(2, Len(keywords)))

\* lines 102-179: the keyword argument (a list, or a string that is split)
\* gives date_keywords and search_terms.  The fallback of lines 177-179 asks
\* for isinstance(keywords, str), which is false after line 103.
ActiveTerms(arg) ==
    LET keywords == IF arg.isString THEN Split(arg.value, <<>>) ELSE arg.value
        c == Classify(keywords, <<>>, <<>>)
        extended == c.search_terms \o c.date_keywords
    IN  [keywords |-> keywords,
         date_keywords |-> c.date_keywords,
         search_terms |-> IF extended = <<>> /\ keywords # <<>>
                          THEN FirstTwo(keywords) ELSE extended]

\* str.endswith
EndsWith(str, suffix) ==
    Len(suffix) <= Len(str) /\ SubSeq(str, Len(str) - Len(suffix) + 1, Len(str)) = suffix

\* lines 195-197: the extension filter
FileTypeOk(file_types, name) ==
    file_types = <<>> \/ \E e \in 1..Len(file_types) : EndsWith(Lower(name), Lower(file_types[e]))

\* line 193: os.path.join(root, file)
FilePath(file) == file.dir \o <<"/">> \o file.name

\* lines 201-212: the loop over date_keywords, left at the first match
RECURSIVE DateKeyMatch(_, _)
DateKeyMatch(date_keywords, file) ==
    IF date_keywords = <<>> THEN FALSE
    ELSE LET date_key == Head(date_keywords)
             file_path == FilePath(file)
         IN  \/ Contains(file.name, date_key) \/ Contains(file_path, date_key)
             \/ /\ Len(date_key) = 8 /\ IsDigitString(date_key)
                /\ Contains(file_path, SubSeq(date_key, 1, 4))
                /\ Contains(file_path, SubSeq(date_key, 5, 6))
                /\ Contains(file_path, SubSeq(date_key, 7, 8))
             \/ DateKeyMatch(Tail(date_keywords), file)

TermMatch_mutAllTerms(search_terms, file) ==
    \A t \in 1..Len(search_terms) : Contains(file.name, search_terms[t])

\* lines 214-218: the loop over search_terms, left at the first match
TermMatch(search_terms, file) ==
    \E t \in 1..Len(search_terms) : Contains(file.name, search_terms[t])

\* lines 192-221: the file is not skipped by one of the two continue
FileIncluded(file_types, terms, file) ==
    /\ FileTypeOk(file_types, file.name)
    /\ DateKeyMatch(terms.date_keywords, file) \/ TermMatch(terms.search_terms, file)

\* a keyword of 8 isdigit() characters of which the last is "²"
KwSuperscript == <<"2", "0", "2", "4", "1", "0", "2", "s">>

KwPlain == <<"r", "p">>

KeywordSamples == {TokValid, TokJapanese, TokSlash, TokWord, KwSuperscript, KwPlain}

\* the keyword argument: a list of at most two keywords, or a string
KeywordArgs ==
    LET lists == {<<>>} \cup {<<k>> : k \in KeywordSamples}
                   \cup {<<k, l>> : k \in KeywordSamples, l \in KeywordSamples}
        strings == {<<>>, <<" ">>} \cup KeywordSamples
                     \cup {k \o <<" ">> \o l : k \in KeywordSamples, l \in KeywordSamples}
    IN  {[isString |-> FALSE, value |-> v] : v \in lists}
          \cup {[isString |-> TRUE, value |-> v] : v \in strings}

FileTypesSamples == {<<>>, << <<".", "t", "x", "t">> >>}

\* the files the walk meets
FileSamples ==
    {[dir |-> <<"b">>,
      name |-> <<"r", "p", "2", "0", "2", "4", "1", "0", "2", "6", ".", "t", "x", "t">>],
     [dir |-> <<"b", "/", "2", "0", "2", "3", "/", "0", "1", "/", "0", "2">>,
      name |-> <<"m", "e", "m", "o", ".", "T", "X", "T">>],
     [dir |-> <<"b", "/", "2", "0", "2", "4", "/", "r", "1", "0">>,
      name |-> <<"2", "6", "a", "a", ".", "p", "d", "f">>],
     [dir |-> <<"b", "/", "a", "a">>,
      name |-> <<"m", "e", "m", "o", ".", "t", "x", "t">>],
     [dir |-> <<"b">>,
      name |-> <<"2", "0", "2", "2", "-", "0", "3", "-", "0", "4", ".", "t", "x", "t">>]}

NoMatchResult == [terms |-> <<>>, included |-> FALSE]

MatchInit ==
    /\ fin \in [keywords : KeywordArgs, file_types : FileTypesSamples, file : FileSamples]
    /\ fpc = "call"
    /\ fout = NoMatchResult
    /\ MainIdle
    /\ VerIdle
    /\ SrchIdle
    /\ ContIdle

\* search_files from line 102 to the decision on one file of the walk
MatchFile ==
    /\ fpc = "call"
    /\ fout' = [terms |-> ActiveTerms(fin.keywords),
                included |-> FileIncluded(fin.file_types, ActiveTerms(fin.keywords), fin.file)]
    /\ fpc' = "decided"
    /\ UNCHANGED fin
    /\ UNCHANGED <<mainVars, verVars, srchVars, contVars>>

MatchNext == MatchFile

SpecMatch == MatchInit /\ [][MatchNext]_vars

(***************************************************************************)
(* generate_ollama_response and get_fallback_response (ollama_client.py).  *)
(* A returned text is named by the statement that makes it.                *)
(***************************************************************************)
\* what requests.post and the reading of its response may give: a 200 with
\* a text, with a blank text, without the key 'response', with a null
\* 'response', with a body that is no JSON; another status; the exceptions
BackendOutcomes ==
    {"text", "blank", "no_key", "null", "bad_json", "non200",
     "timeout", "connection_error", "request_exception"}

\* ollama_client.py 290-325
get_fallback_response(about_ollama, nippo, has_date) ==
    IF about_ollama THEN "fallback_ollama"
    ELSE IF nippo THEN (IF has_date THEN "fallback_nippo_date" ELSE "fallback_nippo")
    ELSE "fallback_generic"

FallbackTexts ==
    {"fallback_ollama", "fallback_nippo_date", "fallback_nippo", "fallback_generic"}

\* ollama_client.py 176-184: the two except clauses of the inner try
RequestHandlers_mutNoConnectionError == {"timeout"}

RequestHandlers == {"timeout", "connection_error"}

\* ollama_client.py 153-190: the text returned for an outcome of the post
AnswerFor(o, q) ==
    CASE o = "text" -> "generated"
      [] o = "blank" -> "apology_blank"              \* lines 165-166
      [] o = "no_key" -> "apology_default"           \* line 161, default of get
      [] o = "non200" -> get_fallback_response(q.about_ollama, q.nippo, q.has_date)
      [] o \in RequestHandlers -> get_fallback_response(q.about_ollama, q.nippo, q.has_date)
      [] OTHER -> "error"                            \* lines 186-190

NoAnswer == [text |-> "none", raised |-> FALSE, context |-> "none", posted |-> FALSE]

GenerateInit ==
    /\ fin \in [search : BOOLEAN, about_ollama : BOOLEAN, nippo : BOOLEAN,
               has_date : BOOLEAN, backend : BackendOutcomes]
    /\ fpc = "search"
    /\ fout = NoAnswer
    /\ MainIdle
    /\ VerIdle
    /\ SrchIdle
    /\ ContIdle

\* ollama_client.py 33-63: the optional file search gives a context
GenerateSearch ==
    /\ fpc = "search"
    /\ \E found \in BOOLEAN :
         fout' = [fout EXCEPT !.context =
                    IF ~fin.search THEN "none"
                    ELSE IF found THEN "found"
                    ELSE IF fin.has_date THEN "not_found_date" ELSE "not_found"]
    /\ fpc' = "post"
    /\ UNCHANGED fin
    /\ UNCHANGED <<mainVars, verVars, srchVars, contVars>>

\* ollama_client.py 64-66: get_relevant_content raises, the call goes on
GenerateSearchRaises ==
    /\ fpc = "search"
    /\ fin.search
    /\ fout' = [fout EXCEPT !.context = "search_error"]
    /\ fpc' = "post"
    /\ UNCHANGED fin
    /\ UNCHANGED <<mainVars, verVars, srchVars, contVars>>

\* ollama_client.py 25-31, 186-190: an exception before the post (the query
\* is no string): the outer except returns the error text
GenerateRaisesEarly ==
    /\ fpc = "search"
    /\ fout' = [fout EXCEPT !.text = "error"]
    /\ fpc' = "done"
    /\ UNCHANGED fin
    /\ UNCHANGED <<mainVars, verVars, srchVars, contVars>>

\* ollama_client.py 134-190: the post and what is returned
GeneratePost ==
    /\ fpc = "post"
    /\ fout' = [fout EXCEPT !.text = AnswerFor(fin.backend, fin), !.posted = TRUE]
    /\ fpc' = "done"
    /\ UNCHANGED fin
    /\ UNCHANGED <<mainVars, verVars, srchVars, contVars>>

GenerateNext ==
    \/ GenerateSearch
    \/ GenerateSearchRaises
    \/ GenerateRaisesEarly
    \/ GeneratePost

SpecGenerate == GenerateInit /\ [][GenerateNext]_vars

(***************************************************************************)
(* Claims about the handler, the workers and the delivery (checked under   *)
(* Spec).                                                                  *)
(***************************************************************************)
\* a call of send_ollama_response is in progress in worker r
Sending(r) == wpc[r] \in {"send", "notify"}

\* the k-th attempt of a call uses the k-th shape of the fixed order
C1_ShapeOrder ==
    \A r \in Reqs : nposts[r] >= 1 => last[r].shape = Shapes[nposts[r]]

\* once an attempt got a 2xx response the call is over: no further attempt
\* can be made, and the result reports success with that attempt's format
C1_StopsAtFirst2xx ==
    \A r \in Reqs :
        (nposts[r] >= 1 /\ Is2xx(last[r].outcome)) =>
            /\ ~Sending(r)
            /\ ~ENABLED (PostRich(r) \/ PostLegacy(r) \/ PostSimple(r))
            /\ result[r] = SuccessResult(Shapes[nposts[r]], last[r].outcome)

\* three attempts of which the third got 2xx: success, format "simple"
C1_ThirdAttemptSucceeds ==
    \A r \in Reqs :
        (nposts[r] = 3 /\ Is2xx(last[r].outcome)) =>
            /\ result[r].status = "success"
            /\ result[r].format = "simple"

\* an attempt is made one at a time, and after a previous attempt only if that
\* attempt raised (timeout included) or returned non-2xx
C1_AttemptStep ==
    \A r \in Reqs :
        nposts'[r] # nposts[r] =>
            /\ nposts'[r] = nposts[r] + 1
            /\ (nposts[r] >= 1 => ~Is2xx(last[r].outcome))
            /\ last'[r].shape = Shapes[nposts'[r]]

\* C1: send_ollama_response tries the rich card, then the legacy card, then
\* the plain text; attempt k+1 is made only if attempt k raised, timed out or
\* returned non-2xx, and none is made after the first 2xx.  When the third
\* attempt is the one that gets 2xx (the first two did not), the result is
\* success with format "simple" after exactly three attempts.
C1_FallbackOrder ==
    /\ [](C1_ShapeOrder /\ C1_StopsAtFirst2xx /\ C1_ThirdAttemptSucceeds)
    /\ [][C1_AttemptStep]_vars

C1_Witness ==
    \E r \in Reqs :
        /\ nposts[r] = 3
        /\ last[r] = [shape |-> "simple", outcome |-> Responded(200)]
        /\ result[r].status = "success"
        /\ result[r].format = "simple"

Accepted(r) == hver[r] \in {"skipped", "passed"} /\ htext[r]

AllThreeFailed(r) == nposts[r] = 3 /\ ~Is2xx(last[r].outcome)

\* every call of send_ollama_response that is over has returned a dictionary
\* (status success or error) to process_query_async
CallReturned(r) ==
    (cfg.webhook /\ wpc[r] \in {"resend", "done"}) => result[r].status # "none"

\* C10 as stated: if all three shapes fail, the error result carries the
\* status code and the message of the last (plain-text) attempt.
C10_ErrorCarriesLastCode ==
    \A r \in Reqs :
        AllThreeFailed(r) =>
            /\ result[r].status = "error"
            /\ result[r].hasCode
            /\ result[r].code = last[r].outcome.code
            /\ result[r].message = "body"

\* C10 amended: if all three shapes fail, the call returns an error result;
\* it carries the status code and the response text of the plain-text attempt
\* when that attempt got a non-2xx response, and only the exception's message
\* (no status code) when that attempt raised or timed out.  The call always
\* returns a result to its caller.
C10_ErrorCarriesLastOutcome ==
    \A r \in Reqs :
        /\ CallReturned(r)
        /\ AllThreeFailed(r) =>
             /\ last[r].shape = "simple"
             /\ result[r].status = "error"
             /\ IF last[r].outcome.raised
                THEN ~result[r].hasCode /\ result[r].message = "exception"
                ELSE /\ result[r].hasCode
                     /\ result[r].code = last[r].outcome.code
                     /\ result[r].message = "body"

C10_Witness ==
    \E r, q \in Reqs :
        /\ AllThreeFailed(r) /\ last[r].outcome.raised
        /\ result[r].status = "error" /\ ~result[r].hasCode
        /\ AllThreeFailed(q) /\ last[q].outcome = Responded(300)
        /\ result[q].status = "error" /\ result[q].code = 300

(***************************************************************************)
(* Claims about search_files (checked under SpecSearch).                   *)
(***************************************************************************)
\* the latest two calls were made with identical arguments
SameArguments == sprev.path # "none" /\ scall.args = sprev.args

\* the timestamp of the entry under the key of call c once c has returned
EntryTimeAfter(c) == IF c.path = "walked" THEN c.time ELSE c.before.timestamp

\* what a walk made now with the arguments of the latest call would return
WalkNow == Walk(1, <<>>, fs, scall.args.keywords, scall.args.max_results)

\* C6 as stated: two calls with identical arguments made within 300 seconds
\* of each other return identical lists, and the second does not walk.
C6_IdenticalCallsInWindow ==
    (SameArguments /\ scall.time - sprev.time < CacheExpiry) =>
        /\ scall.path = "hit"
        /\ scall.ret = sprev.ret

\* C6 amended: a call with use_cache true that finds under its key an entry
\* younger than 300 seconds returns that entry's list without walking; hence
\* two consecutive calls with identical arguments and use_cache true return
\* identical lists, the second without walking, when the first returned from
\* a completed walk or from the cache and the second is made less than 300
\* seconds after the timestamp of the entry.
C6_FreshEntryShortCircuits ==
    /\ (scall.path # "none" /\ scall.args.use_cache
          /\ scall.before.has
          /\ scall.time - scall.before.timestamp < CacheExpiry) =>
            /\ scall.path = "hit"
            /\ scall.ret = scall.before.results
            /\ cache[KeyOf(scall.args)] = scall.before
    /\ (SameArguments /\ scall.args.use_cache
          /\ sprev.path \in {"walked", "hit"}
          /\ scall.time - EntryTimeAfter(sprev) < CacheExpiry) =>
            /\ scall.path = "hit"
            /\ scall.ret = sprev.ret

\* the second of two identical calls is answered from the cache although a
\* walk would now return something else
C6_Witness ==
    /\ SameArguments
    /\ sprev.path = "walked"
    /\ scall.path = "hit"
    /\ scall.time - sprev.time = 299
    /\ scall.ret = sprev.ret
    /\ WalkNow # scall.ret

\* the latest call found an entry older than the expiry under its key
FoundExpired ==
    /\ scall.path # "none"
    /\ scall.before.has
    /\ scall.time - scall.before.timestamp > CacheExpiry

\* C7 as stated: an entry older than 300 seconds is treated as absent: the
\* call does not return from the cache, walks the directory again and replaces
\* the entry with the new results and a new timestamp.
C7_ExpiredEntryReplaced ==
    FoundExpired =>
        /\ scall.path = "walked"
        /\ cache[KeyOf(scall.args)] = Entry(scall.ret, scall.time)

\* C7 amended: an entry older than 300 seconds is treated as absent: the call
\* never returns from the cache and walks the directory again; if the walk
\* completes, the entry is replaced with the new results and a new timestamp,
\* and if the walk raises, the call returns the empty list and the expired
\* entry stays in the cache.
C7_ExpiredEntryNotUsed ==
    FoundExpired =>
        /\ scall.path \in {"walked", "raised"}
        /\ (scall.path = "walked" =>
              cache[KeyOf(scall.args)] = Entry(scall.ret, scall.time))
        /\ (scall.path = "raised" =>
              /\ scall.ret = <<>>
              /\ cache[KeyOf(scall.args)] = scall.before)

C7_Witness ==
    /\ FoundExpired
    /\ scall.time - scall.before.timestamp = 301
    /\ scall.args.use_cache
    /\ scall.path = "walked"
    /\ scall.ret # scall.before.results
    /\ cache[KeyOf(scall.args)] = Entry(scall.ret, scall.time)

\* C11: a search_files call whose walk raised, at whatever point of the walk,
\* returns the empty list (not the records collected so far); every call
\* ends by returning a list to its caller.
C11_WalkExceptionGivesEmptyList ==
    /\ scall.path \in {"none", "hit", "walked", "raised"}
    /\ scall.path = "raised" => scall.ret = <<>>

\* the walk of the latest call raised although there were files to report
C11_Witness ==
    /\ scall.path = "raised"
    /\ scall.ret = <<>>
    /\ Len(WalkNow) = 2

\* C8: for every non-negative max_results, search_files returns at most
\* max_results records.
C8_AtMostMaxResults ==
    scall.path # "none" => Len(scall.ret) <= scall.args.max_results

(***************************************************************************)
(* Claims about get_relevant_content (checked under SpecContent).          *)
(***************************************************************************)
\* C9: the output of get_relevant_content never has more than max_chars
\* characters.
C9_OutputWithinMaxChars ==
    cpc = "done" => outlen <= cin.max_chars

\* C18: when a block does not fit, it is cut to fit, the count of the files
\* left out is appended and the assembly stops: once a block was cut the call
\* is over (no later block is appended) and the output holds the marker.
C18_TruncationMarkedAndFinal ==
    cflags.truncated > 0 => (cpc = "done" /\ cflags.marker)

\* C15: the signature check is bypassed exactly when SKIP_VERIFICATION or
\* DEBUG is set: every handled request has its verification skipped when one
\* of the two flags is set and only then, and with DEBUG set it is skipped
\* whatever SKIP_VERIFICATION is.
C15_BypassIffSkipOrDebug ==
    \A r \in Reqs : hpc[r] # "idle" =>
        /\ (hver[r] = "skipped") <=> (cfg.SKIP_VERIFICATION \/ cfg.DEBUG)
        /\ cfg.DEBUG => hver[r] = "skipped"
        /\ (~cfg.SKIP_VERIFICATION /\ ~cfg.DEBUG) => hver[r] \in {"passed", "failed"}

C15_Witness ==
    \E r \in Reqs :
        /\ hpc[r] = "done"
        /\ cfg.DEBUG
        /\ ~cfg.SKIP_VERIFICATION
        /\ hver[r] = "skipped"

\* the worker of r is inside its except block, sending the error notification
Notifying(r) == wpc[r] = "notify"

C17_WorkerNeverRaises ==
    \A r \in Reqs :
        /\ wpc[r] \in {"none", "generate", "send", "notify", "resend", "done"}
        /\ Notifying(r) => cfg.webhook
        /\ wpc[r] \notin {"none", "done"} => ENABLED process_query_async(r)

C17_NotificationStep ==
    \A r \in Reqs :
        /\ (wpc[r] = "generate" /\ wpc'[r] \notin {"generate", "send"}) =>
              wpc'[r] = IF cfg.webhook THEN "notify" ELSE "done"
        /\ Notifying(r) => wpc'[r] \in {"notify", "done"}
        /\ (Notifying(r) /\ wpc'[r] = "done") => nposts'[r] <= Len(Shapes)

\* C17: an exception in process_query_async enters the except block of the
\* worker: with a delivery channel one call of send_ollama_response sends the
\* error notification (at most one POST per shape), without one nothing is
\* sent; whether the notification succeeds or fails, the worker ends after
\* it with no resend, and in no state has the worker raised or stopped
\* before its end.
C17_ErrorNotificationBestEffort ==
    /\ []C17_WorkerNeverRaises
    /\ [][C17_NotificationStep]_vars

C17_Witness ==
    \E r \in Reqs :
        /\ Notifying(r)
        /\ nposts[r] = 2
        /\ last[r].outcome = Raised
        /\ ENABLED PostSimple(r)

(***************************************************************************)
(* Claims about the keyword list of get_relevant_content (checked under    *)
(* SpecKeywords).                                                          *)
(***************************************************************************)
\* the word w holds the date d that was extracted from the query
CarriesDate(w, d) ==
    /\ QueryDate(w).found
    /\ QueryDate(w).year = d.year
    /\ QueryDate(w).month = d.month
    /\ QueryDate(w).day = d.day

\* C19: when a date was extracted from the query, the date is the first
\* keyword in its structured form and no other keyword is the query word
\* that carries this date.
C19_DateNotGenericKeyword ==
    (fpc = "keywords" /\ fout.date.found) =>
        /\ fout.keywords[1] = fout.date_str
        /\ \A k \in 2..Len(fout.keywords) : ~CarriesDate(fout.keywords[k], fout.date)

(***************************************************************************)
(* Claims about the display blocks of send_ollama_response (checked under  *)
(* SpecSplit).                                                             *)
(***************************************************************************)
\* at most 10 answer blocks are kept and they total at most 9000 characters
C20_KeptWithinLimits ==
    /\ Len(fout.kept) <= MAX_BLOCKS
    /\ SumLens(fout.kept) <= MAX_TOTAL_LEN
    /\ fout.total_len = SumLens(fout.kept)

\* C20: every kept answer block has at most 900 characters, at most 10 are
\* kept and they total at most 9000 characters, whatever the answer is, also
\* when one of its lines is longer than 900 characters.
C20_BlocksWithinLimits ==
    /\ C20_KeptWithinLimits
    /\ \A k \in 1..Len(fout.kept) : fout.kept[k] <= max_len

\* C21: the notice that something was left out is appended exactly when
\* answer content was cut by one of the two caps: when not every block of the
\* answer was kept; an answer whose blocks are all kept gets no notice.
C21_NoticeIffCut ==
    fpc = "done" => (fout.notice <=> Len(fout.kept) < Len(fout.blocks))

(***************************************************************************)
(* Claims about the keywords and the file test of search_files (checked    *)
(* under SpecMatch).                                                       *)
(***************************************************************************)
\* the dates named by the keywords of the call
DatesOfCall ==
    {KeywordDate(fout.terms.keywords[k]) : k \in 1..Len(fout.terms.keywords)} \ {NoDate}

\* the active terms that are no date pattern
PlainTermsOfCall ==
    {fout.terms.search_terms[t] : t \in 1..Len(fout.terms.search_terms)}
        \ {fout.terms.date_keywords[t] : t \in 1..Len(fout.terms.date_keywords)}

\* C22: a file is included exactly when it passes the extension filter (no
\* file types, or its name ends with one of them whatever the case) and one
\* keyword matches: one of the three patterns of a date is in the name or the
\* path, or year, month and day are each in the path, or a term that is no
\* date is in the name.
C22_IncludedIffFilterAndAnyKeyword ==
    fpc = "decided" =>
        (fout.included <=>
            /\ \/ fin.file_types = <<>>
               \/ \E e \in 1..Len(fin.file_types) :
                     EndsWith(Lower(fin.file.name), Lower(fin.file_types[e]))
            /\ \/ \E d \in DatesOfCall : \E rep \in 1..3 :
                     \/ Contains(fin.file.name, DatePatterns(d)[rep])
                     \/ Contains(FilePath(fin.file), DatePatterns(d)[rep])
               \/ \E d \in DatesOfCall :
                     /\ Contains(FilePath(fin.file), d.year)
                     /\ Contains(FilePath(fin.file), d.month)
                     /\ Contains(FilePath(fin.file), d.day)
               \/ \E t \in PlainTermsOfCall : Contains(fin.file.name, t))

C22_Witness ==
    /\ fpc = "decided"
    /\ fout.included
    /\ fin.keywords = [isString |-> FALSE, value |-> <<TokValid>>]
    /\ fin.file_types = <<>>
    /\ fin.file.dir = <<"b", "/", "2", "0", "2", "4", "/", "r", "1", "0">>
    /\ ~Contains(FilePath(fin.file), TokValid)

\* at least one keyword is supplied: a list that is not empty, or a string
\* with a character that is no white space
KeywordSupplied(arg) ==
    IF arg.isString THEN \E i \in 1..Len(arg.value) : arg.value[i] # " "
    ELSE arg.value # <<>>

\* C23: whenever at least one keyword is supplied, the list of active match
\* terms after the classification and the fallback is not empty.
C23_ActiveTermsNonEmpty ==
    (fpc = "decided" /\ KeywordSupplied(fin.keywords)) => fout.terms.search_terms # <<>>

C23_Witness ==
    /\ fpc = "decided"
    /\ fin.keywords = [isString |-> TRUE, value |-> KwSuperscript]
    /\ Classify(fout.terms.keywords, <<>>, <<>>).search_terms = <<>>
    /\ fout.terms.date_keywords = <<>>
    /\ fout.terms.search_terms = <<KwSuperscript>>

(***************************************************************************)
(* Claims about generate_ollama_response (checked under SpecGenerate).     *)
(***************************************************************************)
\* requests.post was called and its outcome decided the answer
Posted == fpc = "done" /\ fout.posted

\* C16: a failure of the model backend is never propagated: after a timeout,
\* a connection error or a status other than 200 the canned fallback text is
\* returned, after any other exception the error text, and every finished
\* call has returned a text.
C16_BackendFailureGivesText ==
    /\ fpc # "done" => ENABLED GenerateNext
    /\ fpc = "done" => (~fout.raised /\ fout.text # "none")
    /\ (Posted /\ fin.backend \in {"timeout", "connection_error", "non200"}) =>
          fout.text \in FallbackTexts
    /\ (Posted /\ fin.backend \in {"null", "bad_json", "request_exception"}) =>
          fout.text = "error"

C16_Witness ==
    /\ fpc = "done"
    /\ fin.backend = "connection_error"
    /\ fout.context = "search_error"
    /\ fout.text = "fallback_nippo_date"

(***************************************************************************)
(* Claims about extract_file_content (checked under SpecExtract).          *)
(***************************************************************************)
\* the returned text holds nothing read from inside the document
MetadataOnly(parts) ==
    \A k \in 1..Len(parts) : parts[k].part # "content"

\* C12: extract_file_content never raises and always completes: from every
\* position of a call a step is possible until it has returned, what it
\* returns is a non-empty string, and after a parser exception the returned
\* text is the fallback text: the file information followed by the output of
\* the fallback or its error, with nothing of the document's content.
C12_AlwaysReturnsText ==
    /\ fpc # "done" => ENABLED ExtractNext
    /\ fpc = "done" => (~fout.raised /\ StrLen(fout.ret) > 0)
    /\ (fpc = "done" /\ fout.parserThrew) =>
          /\ SubSeq(fout.ret, 1, Len(fout.info)) = fout.info
          /\ Len(fout.info) > 0
          /\ MetadataOnly(fout.ret)

C12_Witness ==
    /\ fpc = "done"
    /\ fout.parserThrew
    /\ fin.ext = "pdf"
    /\ fout.ret[Len(fout.ret)].part = "str(e)"
    /\ StrLen(fout.ret) > 0

(***************************************************************************)
(* Claims about extract_date_from_query (checked under SpecDate).          *)
(***************************************************************************)
\* the words of the query in reverse order
RECURSIVE Reverse(_)
Reverse(ws) == IF ws = <<>> THEN <<>> ELSE Append(Reverse(Tail(ws)), Head(ws))

RECURSIVE Join(_)
Join(ws) ==
    IF ws = <<>> THEN <<>>
    ELSE IF Len(ws) = 1 THEN ws[1]
    ELSE ws[1] \o <<" ">> \o Join(Tail(ws))

Swapped(q) == Join(Reverse(Split(q, <<>>)))

HasWord(q, w) == \E k \in 1..Len(Split(q, <<>>)) : Split(q, <<>>)[k] = w

\* C13: the four styles are tried in the order long form, slash or hyphen,
\* 8-digit scan, 8-digit word: the returned date is the long-form one when
\* the query has one, else the slash one when it has one, else the scanned
\* numeral, else the valid word; the style returned does not change when the
\* words of the query change places; and with a long-form date and an
\* unrelated 8-digit numeral the long-form date is returned.
C13_FixedPriority ==
    fpc = "returned" =>
        /\ japanese_date_match(fin).found => fout = japanese_date_match(fin)
        /\ (~japanese_date_match(fin).found /\ slash_date_match(fin).found) =>
              fout = slash_date_match(fin)
        /\ (~japanese_date_match(fin).found /\ ~slash_date_match(fin).found
              /\ numeric_date_match(fin).found) => fout = numeric_date_match(fin)
        /\ (~japanese_date_match(fin).found /\ ~slash_date_match(fin).found
              /\ ~numeric_date_match(fin).found) => fout = token_date_match(fin)
        /\ fout.fmt = extract_date_from_query(Swapped(fin)).fmt
        /\ (HasWord(fin, TokJapanese) /\ HasWord(fin, TokUnrelated)) =>
              fout = Date(<<"2", "0", "2", "3">>, <<"0", "1">>, <<"0", "2">>, "japanese")

C13_Witness ==
    /\ fpc = "returned"
    /\ fin = TokUnrelated \o <<" ">> \o TokJapanese
    /\ fout.fmt = "japanese"
    /\ numeric_date_match(fin).found

\* C14: a word of exactly 8 digits whose month is outside 1..12 or whose day
\* is outside 1..31 is not reported as a date: a query made of such words
\* only gives no date.
C14_InvalidTokenIsNoDate ==
    (fpc = "returned" /\ fin \in {TokBadMonth, TokBadDay, TokBadMonth \o <<" ">> \o TokBadDay}) =>
        ~fout.found

\* C14, second part: "20241026" yields ("2024", "10", "26")
C14_ValidTokenIsDate ==
    (fpc = "returned" /\ fin = TokValid) =>
        fout = Date(<<"2", "0", "2", "4">>, <<"1", "0">>, <<"2", "6">>, "numeric")

(***************************************************************************)
(* Claims about verify_teams_token (checked under SpecVerify).             *)
(***************************************************************************)
\* base64(HMAC-SHA256(S, B)) as the header value
StandardSig(token, body) ==
    Header(FALSE, Render("base64", Hmac("sha256", token, body.raw)))

\* the received signature with a leading "HMAC " label removed
LabelRemoved(sig) == [sig EXCEPT !.label = FALSE]

\* the signature equals the candidate string of some combination
EqualsSomeCandidate ==
    LET cs == Combos(vin.token, vin.body)
    IN \E i \in 1..Len(cs) : Candidate(cs[i]) = LabelRemoved(vin.sig)

\* the signature base64-decodes to the raw HMAC-SHA256 digest of the raw body
\* under some secret variant
DecodesToRawDigest ==
    LET tv == TokenVariants(vin.token)
        t == LabelRemoved(vin.sig).text
    IN /\ t.enc \in {"base64", "base64_loose"}
       /\ \E k \in 1..Len(tv) : t.of = Hmac("sha256", tv[k], vin.body.raw)

\* C4: for every non-empty secret S and body B, the signature
\* base64(HMAC-SHA256(S, B)) is accepted, and the search returns at the first
\* matching combination: no combination before the reported one matches, and
\* no candidate after it is computed (for the standard signature that is the
\* very first combination).
C4_StandardSignatureAccepted ==
    vpc = "done" =>
      /\ (vin.token # <<>> /\ vin.sig = StandardSig(vin.token, vin.body))
            => (vresult = TRUE /\ vmatch = [phase |-> "loop", idx |-> 1])
      /\ vmatch.phase = "loop" =>
            LET cs == Combos(vin.token, vin.body)
            IN /\ vresult = TRUE
               /\ Candidate(cs[vmatch.idx]) = LabelRemoved(vin.sig)
               /\ \A j \in 1..(vmatch.idx - 1) : Candidate(cs[j]) # LabelRemoved(vin.sig)
               /\ vtried = vmatch.idx

C4_Witness ==
    /\ vpc = "done"
    /\ vin.token = <<"a", "b", "=", "=">>
    /\ vin.body = BodyBinary
    /\ vin.sig = StandardSig(vin.token, vin.body)
    /\ vresult = TRUE
    /\ vtried = 1

\* C5 as stated: verify_teams_token returns true only if the signature, label
\* removed, equals the candidate string of some combination; with no matching
\* combination, an empty secret or an empty signature it returns false.
C5_OnlyCandidateStrings ==
    vpc = "done" =>
      /\ vresult = TRUE => EqualsSomeCandidate
      /\ (~EqualsSomeCandidate \/ vin.token = <<>> \/ ~Truthy(vin.sig)) => vresult = FALSE

\* C5 amended: verify_teams_token returns true only if the signature, label
\* removed, equals the candidate string of some combination or base64-decodes
\* (leniently) to the raw HMAC-SHA256 digest of the raw body under some secret
\* variant; if neither is the case, or the secret or the signature is empty,
\* it returns false.
C5_OnlyCandidatesOrDecodedDigest ==
    vpc = "done" =>
      /\ vresult = TRUE => (EqualsSomeCandidate \/ DecodesToRawDigest)
      /\ ((~EqualsSomeCandidate /\ ~DecodesToRawDigest)
             \/ vin.token = <<>> \/ ~Truthy(vin.sig)) => vresult = FALSE

C5_Witness ==
    /\ vpc = "done"
    /\ vresult = TRUE
    /\ vin.sig.label
    /\ vmatch.phase = "special"
    /\ ~EqualsSomeCandidate

(***************************************************************************)
(* C24: concurrent search_files calls and the cache                        *)
(***************************************************************************)
\* the pairs stored so far under key, each by one completed walk
StoredUnder(key) == {w[2] : w \in {v \in sprev : v[1] = key}}

\* every entry in the cache, which is every entry a thread can read, is a pair
\* one completed walk stored under that key, and a list returned from the
\* cache is the list of such a pair
C24_EntriesWhole ==
    /\ \A k \in CacheKeys : cache[k].has => cache[k] \in StoredUnder(k)
    /\ \A t \in ThreadIds :
         scall[t].pc = "read" => cache[KeyOf(scall[t].args)].has

\* the entry under a key changes only by the store of a thread whose walk for
\* that key has completed, and becomes that thread's pair
C24_LastWriteRemains ==
    \A k \in CacheKeys :
        cache'[k] # cache[k] =>
            \E t \in ThreadIds :
                /\ scall[t].pc = "store"
                /\ scall'[t].pc = "idle"
                /\ KeyOf(scall[t].args) = k
                /\ cache'[k] = Entry(scall[t].results, now)

\* C24: under every interleaving of search_files calls of several threads,
\* each cache entry read is a whole pair of results and timestamp stored by
\* one completed walk for the same key, and a store replaces the entry of its
\* key by the storing thread's pair, so that the last store remains.
C24_CacheEntriesAtomic == []C24_EntriesWhole /\ [][C24_LastWriteRemains]_vars

\* two threads missed on the same key and both walked, with different lists,
\* while the key holds the entry of an earlier walk, of yet another list
C24_Witness ==
    \E t1, t2 \in ThreadIds :
        /\ t1 # t2
        /\ scall[t1].pc = "store"
        /\ scall[t2].pc = "store"
        /\ KeyOf(scall[t1].args) = KeyOf(scall[t2].args)
        /\ scall[t1].results # scall[t2].results
        /\ cache[KeyOf(scall[t1].args)].has
        /\ cache[KeyOf(scall[t1].args)].results # scall[t1].results
        /\ cache[KeyOf(scall[t1].args)].results # scall[t2].results

(***************************************************************************)
(* C25: a verification that was executed and failed                        *)
(***************************************************************************)
\* verify_teams_token was called for request r (routes.py 52)
VerificationExecuted(r) == hver[r] \in {"passed", "failed"}

\* C25: the signature check is executed only when neither SKIP_VERIFICATION
\* nor DEBUG is set; a request whose check was executed and failed is answered
\* 403 and no worker is ever started for it; the handler never takes its
\* branch "continue with a warning" (routes.py 58-61).
C25_FailedCheckStartsNoWorker ==
    \A r \in Reqs :
        /\ VerificationExecuted(r) => (~cfg.SKIP_VERIFICATION /\ ~cfg.DEBUG)
        /\ hver[r] = "failed" =>
             /\ resp[r].code = 403
             /\ hpc[r] = "done"
             /\ wpc[r] = "none"
             /\ nposts[r] = 0
        /\ hwarn[r] # "continue"

\* one request failed its check and was refused while, under the same
\* configuration, another passed it and its worker has finished
C25_Witness ==
    \E r, q \in Reqs :
        /\ hver[r] = "failed"
        /\ resp[r].code = 403
        /\ wpc[r] = "none"
        /\ hver[q] = "passed"
        /\ wpc[q] = "done"

(***************************************************************************)
(* C26, C27: the resend and the delivery POSTs of one worker               *)
(***************************************************************************)
\* the worker of r has made its last step
Ended(r) == wpc[r] = "done" /\ ~ENABLED process_query_async(r)

C26_ResendState ==
    \A r \in Reqs :
        /\ resent[r] <= 1
        /\ nposts[r] + resent[r] <= Len(Shapes) + 1
        /\ wpc[r] = "resend" =>
             /\ result[r].status = "error"
             /\ resent[r] = 0
             /\ ENABLED Resend(r)
        /\ resent[r] = 1 => (result[r].status = "error" /\ Ended(r))

C26_ResendStep ==
    \A r \in Reqs :
        /\ (wpc[r] = "send" /\ wpc'[r] # "send") =>
              wpc'[r] = IF result'[r].status = "error" THEN "resend" ELSE "done"
        /\ resent'[r] # resent[r] =>
              /\ wpc[r] = "resend"
              /\ wpc'[r] = "done"
              /\ resent'[r] = resent[r] + 1
              /\ result'[r] = result[r]
              /\ nposts'[r] = nposts[r]
        /\ (wpc[r] = "resend" /\ wpc'[r] # "resend") =>
              (wpc'[r] = "done" /\ resent'[r] = resent[r] + 1)

\* C26: when send_ollama_response returns an error to process_query_async,
\* the worker makes exactly one further POST, the plain-text resend, and ends
\* after it whatever its outcome; with the three POSTs of
\* send_ollama_response that is at most four delivery POSTs.
C26_OneResendAfterError == []C26_ResendState /\ [][C26_ResendStep]_vars

\* all three shapes failed, the resend was made, the worker has ended: four
\* delivery POSTs
C26_Witness ==
    \E r \in Reqs :
        /\ nposts[r] = Len(Shapes)
        /\ ~Is2xx(last[r].outcome)
        /\ resent[r] = 1
        /\ wpc[r] = "done"

\* a POST of send_ollama_response got a 2xx response in the run of worker r
Delivered(r) == nposts[r] >= 1 /\ Is2xx(last[r].outcome)

C27_AfterDelivery ==
    \A r \in Reqs :
        /\ Delivered(r) => (Ended(r) /\ resent[r] = 0)
        /\ resent[r] = 1 => Ended(r)

\* a step that makes a delivery POST: of send_ollama_response, sending the
\* answer or the error notification, or the resend
DeliveryPost(r) == nposts'[r] # nposts[r] \/ resent'[r] # resent[r]

C27_PostStep ==
    \A r \in Reqs :
        DeliveryPost(r) =>
            /\ ~Delivered(r)
            /\ resent[r] = 0
            /\ (resent'[r] # resent[r] => wpc'[r] = "done")

\* C27: in one run of process_query_async at most one delivery POST gets a
\* 2xx response: a POST is only made when no earlier POST of the run got one,
\* and after a 2xx, of a shape or of the resend, the worker has ended: no
\* other shape, no resend, no error notification follows.
C27_AtMostOneDelivery == []C27_AfterDelivery /\ [][C27_PostStep]_vars

\* the second shape of the error notification got the 2xx, after the first
\* was refused, and the worker has ended
C27_Witness ==
    \E r \in Reqs :
        /\ nposts[r] = 2
        /\ last[r] = [shape |-> "legacy", outcome |-> Responded(299)]
        /\ result[r].status = "success"
        /\ wpc[r] = "done"
        /\ resent[r] = 0

(***************************************************************************)
(* C28: every worker ends                                                  *)
(***************************************************************************)
\* the worker of r has been started and has not made its last step
Running(r) == wpc[r] \notin {"none", "done"}

\* a running worker can take its next step whatever the other workers and
\* the handlers are doing
C28_NeverWaits == \A r \in Reqs : Running(r) => ENABLED process_query_async(r)

\* the worker goes forward only: the model call is made once, at the start,
\* and is followed by delivery POSTs only
C28_ForwardStep ==
    \A r \in Reqs :
        /\ wpc'[r] = "generate" => wpc[r] \in {"none", "generate"}
        /\ (wpc[r] # "generate" /\ Running(r) /\ wpc'[r] # wpc[r]) =>
              wpc'[r] \in {"resend", "done"}
        /\ wpc[r] = "done" => wpc'[r] = "done"
        /\ (Running(r) /\ <<wpc[r], nposts[r], resent[r]>> # <<wpc'[r], nposts'[r], resent'[r]>>) =>
              \/ wpc'[r] # wpc[r]
              \/ nposts'[r] = nposts[r] + 1

\* C28: every started worker ends, given that each call it makes returns or
\* times out: it makes the model call once, then a bounded number of
\* delivery POSTs, never goes back, and never waits for another worker.
C28_WorkerTerminates ==
    /\ \A r \in Reqs : Running(r) ~> (wpc[r] = "done")
    /\ []C28_NeverWaits
    /\ [][C28_ForwardStep]_vars

\* two workers have ended, one after four delivery POSTs, the other sending
\* nothing for want of a delivery channel or after one POST
C28_Witness ==
    \E r, q \in Reqs :
        /\ wpc[r] = "done" /\ nposts[r] = Len(Shapes) /\ resent[r] = 1
        /\ wpc[q] = "done" /\ nposts[q] = 1 /\ resent[q] = 0

(***************************************************************************)
(* C29: what a call of search_files does to the cache                      *)
(***************************************************************************)
\* the step is a call of search_files, which scall' records
IsCall == ncalls' = ncalls + 1

\* C29: a call of search_files whose walk raises leaves the cache as it was:
\* no entry is added, replaced or removed, an expired entry stays, and the
\* empty list it returns is not stored.  The cache changes only by a walk
\* that completed, which stores its list under its key, also when the call
\* was made with use_cache false.
C29_OnlyCompletedWalkWrites ==
    [][/\ (IsCall /\ scall'.path = "raised") =>
             (cache' = cache /\ scall'.ret = <<>>)
       /\ (IsCall /\ scall'.path = "walked") =>
             cache' = [cache EXCEPT ![KeyOf(scall'.args)] = Entry(scall'.ret, now)]
       /\ cache' # cache => (IsCall /\ scall'.path = "walked")]_vars

\* a call made without the cache walked and stored its list; the next call,
\* made with the cache after the entry had expired, raised: the expired
\* entry is still there
C29_Witness ==
    /\ sprev.path = "walked"
    /\ ~sprev.args.use_cache
    /\ sprev.ret # <<>>
    /\ scall.path = "raised"
    /\ scall.args.use_cache
    /\ KeyOf(scall.args) = KeyOf(sprev.args)
    /\ scall.time - sprev.time > CacheExpiry
    /\ cache[KeyOf(scall.args)] = Entry(sprev.ret, sprev.time)

(***************************************************************************)
(* C30: the keyword list of get_relevant_content                           *)
(***************************************************************************)
\* C30: for every query, the empty string included, the keyword list built
\* by get_relevant_content is not empty: the guidance text of line 356 is
\* never returned and search_files is called.
C30_KeywordsNeverEmpty ==
    /\ fpc # "guidance"
    /\ fpc = "keywords" => (fout.keywords # <<>> /\ ~GuidanceReturned(fout.keywords))

\* the empty query: no date, no word, and the list is the one word 日報
C30_Witness ==
    /\ fin = <<>>
    /\ fpc = "keywords"
    /\ fout.keywords = <<Nippo>>

====
